---- MODULE Spec2Model ----
(***************************************************************************)
(* A model of httpulse: the per-profile probe workers (runtime.rs), the    *)
(* probe client's retry logic (features/probe/engine/client.rs), the       *)
(* bounded metrics store (features/metrics/aggregate/store.rs) and the     *)
(* application state that routes samples into it                           *)
(* (features/app/state.rs).                                                *)
(*                                                                         *)
(* Four specifications share the variables:                                *)
(*   SpecStore  direct calls of MetricsStore::push_sample                  *)
(*   SpecProbe  calls of ProbeClient::probe against a scripted transport   *)
(*   SpecWorker one worker thread and any use of its control channel       *)
(*   Spec       UI thread + worker threads + channels                      *)
(***************************************************************************)
EXTENDS Integers, Sequences, FiniteSets, TLC

\* ------------------------------------------------------------------ bounds

\* SpecStore: number of push_sample calls explored, largest max_points passed.
MaxPushes == 3
MaxPoints == 2

\* SpecCollector: largest read limit, largest chunk passed to write, bytes
\* offered after one reset.
MaxLimit == 3
MaxChunk == 3
MaxOffered == 5

\* SpecTimings: largest reading of a transfer timer.
MaxTime == 2

\* SpecTls: threads calling detect_tls13_support, and calls per thread.
MaxCallers == 2
MaxCalls == 2

\* SpecTick: the longest interval an UpdateTarget installs.
MaxInterval == 2

\* ---------------------------------------------------------------- variables

VARIABLES
    metrics,     \* MetricsStore.samples: ProfileKey -> queue of ProbeSample
    pushLog,     \* history: the push_sample calls made so far (SpecStore)
    probeCall,   \* SpecProbe: the last call of ProbeClient::probe, with its result
    collector,   \* the BodyCollector of the client's transfer handle
    global,      \* AppState.global: the GlobalConfig in effect
    tls13,       \* TLS13_SUPPORTED and the threads calling detect_tls13_support
    targets,     \* AppState.targets: Vec<TargetRuntime>
    selected_target, \* AppState.selected_target (0-based)
    sample_chan, \* the unbounded sample channel: samples sent and not yet received
    workers,     \* worker threads spawned so far: (target id, profile id) -> its state
    mainpc,      \* where the main thread is: idle, inside remove_target, exiting, exited
    next_id,     \* targets created so far (ids are fresh, never reused)
    events,      \* interval timeouts and UI edits (pause, config update) so far
    removed,     \* history: ids of the targets whose remove_target has returned
    rejected     \* history: the keys of the samples apply_sample did not store

storeVars == <<metrics, pushLog>>

sysVars == <<targets, selected_target, sample_chan, workers, mainpc, next_id, events,
             removed, rejected>>

vars == <<metrics, pushLog, probeCall, collector, global, tls13, targets, selected_target, sample_chan, workers,
          mainpc, next_id, events, removed, rejected>>

\* ------------------------------------------------------------ data model

None == "None"

\* ProbeResult::Ok / ProbeResult::Err(ProbeError { kind, message })
ResultOk == [tag |-> "Ok"]
ResultErr(kind, message) == [tag |-> "Err", kind |-> kind, message |-> message]

ProfileKey(target_id, profile_id) == <<target_id, profile_id>>

WorkerKey(target, profile) == ProfileKey(target.config.id, profile.config.id)

\* ProbeErrorKind::is_timeout as spec.md section 3 lists it.
is_timeout(kind) == kind \in {"DnsTimeout", "ConnectTimeout", "HttpTimeout", "ReadTimeout"}

\* Every error taken for a timeout.
is_timeout_error_any_kind(kind) == TRUE

\* stats.rs is_timeout_error
is_timeout_error(kind) == is_timeout(kind)

\* WindowSpec::duration, in seconds.
WindowSpec == {"M1", "M5", "M15", "H1"}

duration(window) ==
    CASE window = "M1" -> 60
      [] window = "M5" -> 5 * 60
      [] window = "M15" -> 15 * 60
      [] window = "H1" -> 60 * 60

\* ------------------------------------------------------------ MetricsStore

\* `while queue.len() > max_points { queue.pop_front(); }`
RECURSIVE evict(_, _)
evict(queue, max_points) ==
    IF Len(queue) > max_points THEN evict(Tail(queue), max_points) ELSE queue

\* A store that bounds the whole map instead of the pushed key's queue.
push_sample_evict_all(samples, key, sample, max_points) ==
    [k \in (DOMAIN samples) \cup {key} |->
        IF k = key
        THEN Append(IF key \in DOMAIN samples THEN samples[key] ELSE <<>>, sample)
        ELSE evict(samples[k], max_points)]

\* A store that tests the bound before appending (off by one).
push_sample_check_first(samples, key, sample, max_points) ==
    LET old == IF key \in DOMAIN samples THEN samples[key] ELSE <<>>
    IN [k \in (DOMAIN samples) \cup {key} |->
        IF k = key THEN Append(evict(old, max_points), sample) ELSE samples[k]]

\* A store that evicts the newest sample instead of the oldest.
push_sample_drop_newest(samples, key, sample, max_points) ==
    LET old == IF key \in DOMAIN samples THEN samples[key] ELSE <<>>
        q == Append(old, sample)
    IN [k \in (DOMAIN samples) \cup {key} |->
        IF k = key
        THEN IF Len(q) > max_points THEN SubSeq(q, 1, max_points) ELSE q
        ELSE samples[k]]

\* MetricsStore::push_sample: entry(key).or_default(), push_back, evict.
push_sample(samples, key, sample, max_points) ==
    LET old == IF key \in DOMAIN samples THEN samples[key] ELSE <<>>
    IN [k \in (DOMAIN samples) \cup {key} |->
        IF k = key THEN evict(Append(old, sample), max_points) ELSE samples[k]]

\* self.samples.get(&key): None is an empty iteration.
queue_of(samples, key) == IF key \in DOMAIN samples THEN samples[key] ELSE <<>>

\* now.checked_sub(window.duration()).unwrap_or(UNIX_EPOCH)
cutoff_of(now, window) == IF now >= duration(window) THEN now - duration(window) ELSE 0

\* samples.iter().filter(|s| s.ts >= cutoff)
RECURSIVE in_window(_, _)
in_window(queue, cutoff) ==
    IF queue = <<>> THEN <<>>
    ELSE IF Head(queue).ts >= cutoff
         THEN <<Head(queue)>> \o in_window(Tail(queue), cutoff)
         ELSE in_window(Tail(queue), cutoff)

RECURSIVE total_values(_)
total_values(queue) ==
    IF queue = <<>> THEN <<>>
    ELSE IF Head(queue).result.tag = "Ok"
         THEN <<Head(queue).t_total>> \o total_values(Tail(queue))
         ELSE total_values(Tail(queue))

RECURSIVE seq_min(_)
seq_min(values) ==
    IF Len(values) = 1 THEN values[1]
    ELSE LET m == seq_min(Tail(values)) IN IF values[1] < m THEN values[1] ELSE m

RECURSIVE seq_max(_)
seq_max(values) ==
    IF Len(values) = 1 THEN values[1]
    ELSE LET m == seq_max(Tail(values)) IN IF values[1] > m THEN values[1] ELSE m

\* compute_stats: the count, last, min and max of a value list
\* (MetricStats::empty when the list is empty).
compute_stats(values) ==
    IF values = <<>>
    THEN [n |-> 0, last |-> None, min |-> None, max |-> None]
    ELSE [n |-> Len(values), last |-> values[Len(values)],
          min |-> seq_min(values), max |-> seq_max(values)]

RECURSIVE count_errors(_, _)
count_errors(queue, kind) ==
    IF queue = <<>> THEN 0
    ELSE (IF Head(queue).result.tag = "Err" /\ Head(queue).result.kind = kind THEN 1 ELSE 0)
         + count_errors(Tail(queue), kind)

RECURSIVE count_all_errors(_)
count_all_errors(queue) ==
    IF queue = <<>> THEN 0
    ELSE (IF Head(queue).result.tag = "Err" THEN 1 ELSE 0) + count_all_errors(Tail(queue))

ErrorKindsOf(queue) ==
    {queue[i].result.kind : i \in {j \in 1..Len(queue) : queue[j].result.tag = "Err"}}

\* MetricStats::from_scalar
from_scalar(value, n) ==
    [n |-> n, last |-> value, min |-> value, max |-> value, mean |-> value,
     p50 |-> value, p90 |-> value, p99 |-> value]

\* The rate without the test for an empty window.
loss_rate_unguarded(error_samples, total_samples) ==
    <<[num |-> error_samples, den |-> total_samples]>>

\* `if total_samples == 0 { None } else { Some(error_samples / total_samples) }`:
\* the Option is a sequence of at most one value, the quotient the fraction
\* num / den.
loss_rate(error_samples, total_samples) ==
    IF total_samples = 0 THEN <<>>
    ELSE <<[num |-> error_samples, den |-> total_samples]>>

abs_diff(a, b) == IF a >= b THEN a - b ELSE b - a

\* The differences taken between the first two values only.
jitter_values_first_pair(values) ==
    IF Len(values) > 1 THEN <<abs_diff(values[2], values[1])>> ELSE <<>>

\* `total_values.windows(2).map(|w| (w[1] - w[0]).abs()).collect()`
jitter_values(values) ==
    [i \in 1..(IF Len(values) > 1 THEN Len(values) - 1 ELSE 0) |->
        abs_diff(values[i + 1], values[i])]

\* MetricsStore::windowed_aggregate_with_clock, for the metrics Total, Jitter
\* and ProbeLossRate.
windowed_aggregate_with_clock(samples, key, window, now) ==
    LET win == in_window(queue_of(samples, key), cutoff_of(now, window))
        total_samples == Len(win)
        error_samples == count_all_errors(win)
    IN [window |-> window,
        Total |-> compute_stats(total_values(win)),
        Jitter |-> compute_stats(jitter_values(total_values(win))),
        ProbeLossRate |-> from_scalar(loss_rate(error_samples, total_samples), total_samples),
        error_breakdown |-> [kind \in ErrorKindsOf(win) |-> count_errors(win, kind)]]

\* MetricsStore::timeseries_with_clock for metric Total:
\* x = (window_seconds - age).max(0.0) when now.duration_since(ts) is Ok.
RECURSIVE timeseries_points(_, _, _)
timeseries_points(win, now, window_seconds) ==
    IF win = <<>> THEN <<>>
    ELSE LET s == Head(win)
             x == IF window_seconds - (now - s.ts) > 0
                  THEN window_seconds - (now - s.ts) ELSE 0
         IN (IF s.result.tag = "Ok" /\ now >= s.ts THEN <<(<<x, s.t_total>>)>> ELSE <<>>)
            \o timeseries_points(Tail(win), now, window_seconds)

timeseries_with_clock(samples, key, window, now) ==
    timeseries_points(in_window(queue_of(samples, key), cutoff_of(now, window)),
                      now, duration(window))

\* MetricsStore::timeout_events_with_clock
RECURSIVE timeout_points(_, _, _)
timeout_points(win, now, window_seconds) ==
    IF win = <<>> THEN <<>>
    ELSE LET s == Head(win)
             x == IF window_seconds - (now - s.ts) > 0
                  THEN window_seconds - (now - s.ts) ELSE 0
         IN (IF s.result.tag = "Err" /\ is_timeout_error(s.result.kind) /\ now >= s.ts
             THEN <<x>> ELSE <<>>)
            \o timeout_points(Tail(win), now, window_seconds)

timeout_events_with_clock(samples, key, window, now) ==
    timeout_points(in_window(queue_of(samples, key), cutoff_of(now, window)),
                   now, duration(window))

\* ----------------------------------------------------------- BodyCollector

\* A subtraction that does not stop at 0.
sub_without_saturation(a, b) == a - b

saturating_sub(a, b) == IF a >= b THEN a - b ELSE 0

Min(a, b) == IF a <= b THEN a ELSE b

\* #[derive(Default)] BodyCollector, before any call; `offered` counts the
\* bytes passed to write since the last reset and `last` is the last call
\* made with what it returned.
BodyCollector_default ==
    [bytes |-> 0, limit |-> 0, limit_reached |-> FALSE, offered |-> 0,
     last |-> [op |-> "default", arg |-> 0, consumed |-> 0, continue |-> TRUE]]

\* BodyCollector::reset
BodyCollector_reset(c, limit) ==
    [bytes |-> 0, limit |-> limit, limit_reached |-> FALSE, offered |-> 0,
     last |-> [op |-> "reset", arg |-> limit, consumed |-> 0, continue |-> TRUE]]

\* write that counts every byte offered, whatever the limit.
BodyCollector_write_uncapped(c, len) ==
    LET bytes == c.bytes + len
    IN [c EXCEPT !.bytes = bytes,
                 !.limit_reached = @ \/ (c.limit > 0 /\ bytes >= c.limit),
                 !.offered = @ + len,
                 !.last = [op |-> "write", arg |-> len, consumed |-> len, continue |-> TRUE]]

\* Handler::write for BodyCollector, `len` being data.len(); Ok(data.len()).
BodyCollector_write(c, len) ==
    LET take == IF c.limit = 0 THEN len
                ELSE Min(len, saturating_sub(c.limit, c.bytes))
        bytes == c.bytes + take
    IN [c EXCEPT !.bytes = bytes,
                 !.limit_reached = @ \/ (c.limit > 0 /\ bytes >= c.limit),
                 !.offered = @ + len,
                 !.last = [op |-> "write", arg |-> len, consumed |-> len, continue |-> TRUE]]

\* Handler::progress for BodyCollector; `continue` is the value returned.
BodyCollector_progress(c, dlnow) ==
    LET ret == [op |-> "progress", arg |-> dlnow, consumed |-> 0, continue |-> TRUE]
    IN IF c.limit = 0 THEN [c EXCEPT !.last = ret]
       ELSE IF c.limit_reached THEN [c EXCEPT !.last = [ret EXCEPT !.continue = FALSE]]
       ELSE IF dlnow >= c.limit
            THEN [c EXCEPT !.limit_reached = TRUE, !.last = [ret EXCEPT !.continue = FALSE]]
       ELSE [c EXCEPT !.last = ret]

\* ------------------------------------------------ AppState::target_summary

\* state.rs target_aggregate, with the window selected in the UI and the clock.
target_aggregate(samples, target, profile, window, now) ==
    windowed_aggregate_with_clock(samples, WorkerKey(target, profile), window, now)

\* `*summary.errors.entry(*kind).or_insert(0) += count` for every entry of breakdown.
add_errors(errors, breakdown) ==
    [kind \in DOMAIN errors \cup DOMAIN breakdown |->
        (IF kind \in DOMAIN errors THEN errors[kind] ELSE 0)
        + (IF kind \in DOMAIN breakdown THEN breakdown[kind] ELSE 0)]

\* `for profile in &target.profiles { .. }` from the j-th profile on.
RECURSIVE summary_loop(_, _, _, _, _, _)
summary_loop(samples, target, window, now, j, summary) ==
    IF j > Len(target.profiles) THEN summary
    ELSE LET aggregate == target_aggregate(samples, target, target.profiles[j], window, now)
         IN summary_loop(samples, target, window, now, j + 1,
                [summary EXCEPT !.samples = @ + aggregate.ProbeLossRate.n,
                                !.requests = @ + aggregate.Total.n,
                                !.errors = add_errors(@, aggregate.error_breakdown)])

\* summary.errors.values().sum(), over the kinds in `kinds`.
RECURSIVE sum_errors(_, _)
sum_errors(errors, kinds) ==
    IF kinds = {} THEN 0
    ELSE LET kind == CHOOSE k \in kinds : TRUE
         IN errors[kind] + sum_errors(errors, kinds \ {kind})

GlobalSummary_default ==
    [samples |-> 0, requests |-> 0, successes |-> 0, timeouts |-> 0, errors |-> <<>>]

\* A summary over the target's first profile only.
target_summary_first_profile(samples, target, window, now) ==
    LET first == [target EXCEPT !.profiles = SubSeq(@, 1, 1)]
        summary == summary_loop(samples, first, window, now, 1, GlobalSummary_default)
        total_errors == sum_errors(summary.errors, DOMAIN summary.errors)
    IN [summary EXCEPT
          !.successes = saturating_sub(summary.requests, total_errors),
          !.timeouts = sum_errors(summary.errors,
                                  {kind \in DOMAIN summary.errors : is_timeout(kind)})]

\* state.rs target_summary
target_summary(samples, target, window, now) ==
    LET summary == summary_loop(samples, target, window, now, 1, GlobalSummary_default)
        total_errors == sum_errors(summary.errors, DOMAIN summary.errors)
    IN [summary EXCEPT
          !.successes = saturating_sub(summary.requests, total_errors),
          !.timeouts = sum_errors(summary.errors,
                                  {kind \in DOMAIN summary.errors : is_timeout(kind)})]

\* ------------------------------------------------- SpecStore: direct pushes

\* The process-wide OnceLock, empty, and no thread inside detect_tls13_support.
\* cell: the stored boolean, if any; running: closures of get_or_init that have
\* started and not finished; runs: the environment each started closure met;
\* pc, ret: the position and the returned values of each calling thread.
Tls13_new ==
    [cell |-> <<>>, running |-> {}, runs |-> <<>>,
     pc |-> [t \in 1..MaxCallers |-> "idle"],
     ret |-> [t \in 1..MaxCallers |-> <<>>]]

\* config.rs GlobalConfig::default (the refresh rate, in Hz).
GlobalConfig_default == [ui_refresh_hz |-> 10]

\* The keys pushed to: two profiles of one target and one of another.
StoreKeys == {ProfileKey(1, 1), ProfileKey(2, 1)}

\* The i-th push is made at ts = 20 * i seconds (a non-decreasing wall clock).
StoreTs(i) == 20 * i

\* Results of the samples pushed: as the store's own tests build them.
StoreResults == {ResultOk, ResultErr("HttpTimeout", "error")}

\* The total time measured by the i-th push: 10, 20, 30 ms, then over again.
StoreTotal(i) == 10 * (((i - 1) % 3) + 1)

StoreSample(key, ts, result, total_ms) ==
    [ts |-> ts, target_id |-> key[1], profile_id |-> key[2], result |-> result,
     remote |-> None, t_total |-> IF result.tag = "Ok" THEN total_ms ELSE 0]

\* AppState::new, no worker spawned, nothing sent.
Init ==
    /\ metrics = <<>>
    /\ pushLog = <<>>
    /\ probeCall = <<>>
    /\ collector = BodyCollector_default
    /\ global = GlobalConfig_default
    /\ tls13 = Tls13_new
    /\ targets = <<>>
    /\ selected_target = 0
    /\ sample_chan = <<>>
    /\ workers = <<>>
    /\ mainpc = [op |-> "idle"]
    /\ next_id = 0
    /\ events = 0
    /\ removed = {}
    /\ rejected = {}

\* store.push_sample(key, sample, max_points)
PushSample(key, sample, max_points) ==
    /\ Len(pushLog) < MaxPushes
    /\ metrics' = push_sample(metrics, key, sample, max_points)
    /\ pushLog' = Append(pushLog, [key |-> key, sample |-> sample, max_points |-> max_points])
    /\ UNCHANGED <<probeCall, collector, global, tls13, sysVars>>

NextStore ==
    \E key \in StoreKeys, result \in StoreResults, max_points \in 0..MaxPoints :
        PushSample(key,
                   StoreSample(key, StoreTs(Len(pushLog) + 1), result,
                               StoreTotal(Len(pushLog) + 1)),
                   max_points)

SpecStore == Init /\ [][NextStore]_vars

\* ------------------------- SpecAggregate: the store as apply_sample feeds it

\* config.rs SamplingConfig::default: max_points_per_window.
DefaultMaxPoints == 1024

\* Ok, a timeout and an error that is not a timeout.
AggregateResults == StoreResults \cup {ResultErr("HttpStatusError", "error")}

\* A target with two profiles and a target with one.
AggregateTargets ==
    {[config |-> [id |-> 1], profiles |-> <<[config |-> [id |-> 1]], [config |-> [id |-> 2]]>>],
     [config |-> [id |-> 2], profiles |-> <<[config |-> [id |-> 1]]>>]}

AggregateKeys ==
    UNION {{WorkerKey(target, target.profiles[j]) : j \in DOMAIN target.profiles} :
             target \in AggregateTargets}

\* apply_sample pushes with the target's max_points_per_window, by default
\* DefaultMaxPoints, so that nothing is evicted.
NextAggregate ==
    \E key \in AggregateKeys, result \in AggregateResults :
        PushSample(key,
                   StoreSample(key, StoreTs(Len(pushLog) + 1), result,
                               StoreTotal(Len(pushLog) + 1)),
                   DefaultMaxPoints)

SpecAggregate == Init /\ [][NextAggregate]_vars

\* ------------------------------------------------------------- ProbeClient

\* An error message is the sequence of its words; to_ascii_lowercase folds
\* each word, contains() looks for a run of words.
Lower(word) ==
    CASE word = "Resolving" -> "resolving"
      [] word = "RESOLVING" -> "resolving"
      [] word = "TIMED" -> "timed"
      [] word = "OUT" -> "out"
      [] word = "Timeout" -> "timeout"
      [] word = "TLS" -> "tls"
      [] word = "SSL" -> "ssl"
      [] word = "Unsupported" -> "unsupported"
      [] word = "Could" -> "could"
      [] OTHER -> word

to_ascii_lowercase(message) == [i \in DOMAIN message |-> Lower(message[i])]

contains(message, pattern) ==
    \E i \in 1..(Len(message) - Len(pattern) + 1) :
        SubSeq(message, i, i + Len(pattern) - 1) = pattern

\* helpers.rs is_dns_timeout_message
is_dns_timeout_message(message) ==
    contains(to_ascii_lowercase(message), <<"resolving", "timed", "out">>)

\* helpers.rs is_tls_version_error (on the lower-cased message);
\* `a || b || c && (d || e)`.
is_tls_version_error(message) ==
    \/ contains(message, <<"ssl_min_max_version">>)
    \/ contains(message, <<"unsupported", "protocol">>)
    \/ /\ contains(message, <<"tls">>)
       /\ contains(message, <<"version">>) \/ contains(message, <<"unsupported">>)

\* The classifier without `message.to_ascii_lowercase()`.
map_curl_error_no_lowercase(err) ==
    LET kind ==
            IF err.code \in {"COULDNT_RESOLVE_HOST", "COULDNT_RESOLVE_PROXY"} THEN "DnsOther"
            ELSE IF err.code = "OPERATION_TIMEDOUT" THEN "HttpTimeout"
            ELSE IF err.code = "COULDNT_CONNECT" THEN "ConnectOther"
            ELSE IF err.code \in {"SSL_CONNECT_ERROR", "SSL_CACERT", "SSL_CERTPROBLEM",
                                  "SSL_CIPHER"}
                 THEN IF is_tls_version_error(err.message)
                      THEN "TlsVersionMismatch" ELSE "TlsHandshakeFailed"
            ELSE IF err.code = "HTTP_RETURNED_ERROR" THEN "HttpStatusError"
            ELSE IF err.code = "READ_ERROR" THEN "ReadTimeout"
            ELSE IF is_tls_version_error(err.message) THEN "TlsVersionMismatch"
            ELSE "IoError"
    IN ResultErr(kind, err.message)

\* A classifier with a kind of its own for a timeout while resolving.
map_curl_error_dns_timeout(err) ==
    LET kind ==
            IF err.code \in {"COULDNT_RESOLVE_HOST", "COULDNT_RESOLVE_PROXY"} THEN "DnsOther"
            ELSE IF err.code = "OPERATION_TIMEDOUT"
                 THEN IF is_dns_timeout_message(err.message)
                      THEN "DnsTimeout" ELSE "HttpTimeout"
            ELSE IF err.code = "SSL_CONNECT_ERROR" THEN "TlsHandshakeFailed"
            ELSE "IoError"
    IN ResultErr(kind, err.message)

\* helpers.rs map_curl_error: first match wins. A curl error carries one code.
map_curl_error(err) ==
    LET message_lower == to_ascii_lowercase(err.message)
        kind ==
            IF err.code \in {"COULDNT_RESOLVE_HOST", "COULDNT_RESOLVE_PROXY"} THEN "DnsOther"
            ELSE IF err.code = "OPERATION_TIMEDOUT" THEN "HttpTimeout"
            ELSE IF err.code = "COULDNT_CONNECT" THEN "ConnectOther"
            ELSE IF err.code \in {"SSL_CONNECT_ERROR", "SSL_CACERT", "SSL_CERTPROBLEM",
                                  "SSL_CIPHER"}
                 THEN IF is_tls_version_error(message_lower)
                      THEN "TlsVersionMismatch" ELSE "TlsHandshakeFailed"
            ELSE IF err.code = "HTTP_RETURNED_ERROR" THEN "HttpStatusError"
            ELSE IF err.code = "READ_ERROR" THEN "ReadTimeout"
            ELSE IF is_tls_version_error(message_lower) THEN "TlsVersionMismatch"
            ELSE "IoError"
    IN ResultErr(kind, err.message)

\* A target URL's host as the url crate holds it (a domain or an IP literal)
\* and Url::host_str, which gives an IPv6 address between [ and ].
HostKinds == {"Domain", "Ipv4", "Ipv6"}

host_str(url) ==
    CASE url.host = "Domain" -> <<"example.com">>
      [] url.host = "Ipv4" -> <<"192.0.2.1">>
      [] url.host = "Ipv6" -> <<"[", "2001:db8::1", "]">>

\* str::parse::<IpAddr>(): a bare IPv4 or IPv6 address, nothing around it.
parse_IpAddr(text) == text \in {<<"192.0.2.1">>, <<"2001:db8::1">>}

\* client.rs probe(): host_is_ip
host_is_ip(target) == parse_IpAddr(host_str(target.url))

\* The URL's host is an IP literal (url::Host::Ipv4 or url::Host::Ipv6).
HostIsIpLiteral(target) == target.url.host \in {"Ipv4", "Ipv6"}

\* The result of Easy2::perform: Ok(()) or a curl error (one code, a message).
PerformOk == [code |-> "OK", message |-> <<>>]
is_err(perform_result) == perform_result.code # "OK"

\* Every write or abort error forgiven, whatever the collector says.
aborted_by_limit_any_write(perform_result, was_aborted_by_limit) ==
    /\ is_err(perform_result)
    /\ perform_result.code \in {"WRITE_ERROR", "ABORTED_BY_CALLBACK"}

\* `was_aborted_by_limit && (err.is_write_error() || err.is_aborted_by_callback())`
\* inside `if let Err(err) = perform_result`.
aborted_by_limit(perform_result, was_aborted_by_limit) ==
    /\ is_err(perform_result)
    /\ was_aborted_by_limit
    /\ perform_result.code \in {"WRITE_ERROR", "ABORTED_BY_CALLBACK"}

\* client.rs probe_once: one transfer. `tr` is what the transport did:
\* perform()'s result, the response code (0 when no response came), the
\* collector's limit_reached, the peer address and the clock at start.
probe_once(target, profile, resolved_ip, ip_resolve, tr) ==
    LET was_aborted_by_limit == tr.limit_reached
        dns_timeout0 ==
            IF is_err(tr.perform) /\ tr.perform.code = "OPERATION_TIMEDOUT"
            THEN is_dns_timeout_message(tr.perform.message) ELSE FALSE
        result0 ==
            IF tr.status >= 400
            THEN ResultErr("HttpStatusError", <<"HTTP", "status", ToString(tr.status)>>)
            ELSE ResultOk
        by_limit == aborted_by_limit(tr.perform, was_aborted_by_limit)
        probe_result ==
            IF is_err(tr.perform) /\ ~by_limit
            THEN map_curl_error(tr.perform) ELSE result0
        resolve_override ==
            IF ~target.dns_enabled /\ resolved_ip # None
            THEN <<host_str(target.url), <<resolved_ip>> >> ELSE <<>>
    IN [sample |-> [ts |-> tr.start_ts,
                    target_id |-> target.id,
                    profile_id |-> profile.id,
                    result |-> probe_result,
                    http_status |-> tr.status,
                    remote |-> tr.remote,
                    t_total |-> tr.t_total],
        dns_timeout |-> dns_timeout0 /\ ~by_limit,
        ip_resolve |-> ip_resolve,
        resolve_override |-> resolve_override]

\* client.rs probe(): the loop over ip_modes. `script[i]` is what the transport
\* does on the i-th transfer of this call; `performed` lists the transfers made.
\* Falling out of the loop is `last_sample.expect(..)`.
RECURSIVE probe_attempts(_, _, _, _, _, _, _)
probe_attempts(target, profile, resolved_ip, ip_modes, script, index, last_sample) ==
    IF index > Len(ip_modes)
    THEN [sample |-> IF last_sample = <<>> THEN [panic |-> TRUE] ELSE last_sample[1],
          performed |-> <<>>]
    ELSE LET r == probe_once(target, profile, resolved_ip, ip_modes[index], script[index])
             should_retry == r.dns_timeout /\ index < Len(ip_modes)
         IN IF should_retry
            THEN LET rest == probe_attempts(target, profile, resolved_ip, ip_modes,
                                            script, index + 1, <<r.sample>>)
                 IN [sample |-> rest.sample, performed |-> <<r>> \o rest.performed]
            ELSE [sample |-> r.sample, performed |-> <<r>>]

probe(target, profile, resolved_ip, script) ==
    LET retry_on_dns_timeout == target.dns_enabled /\ ~host_is_ip(target)
        ip_modes == IF retry_on_dns_timeout THEN <<"Any", "V4">> ELSE <<"Any">>
    IN probe_attempts(target, profile, resolved_ip, ip_modes, script, 1, <<>>)

\* client.rs probe_once, the phase durations. `times` holds what the transfer
\* handle reports for total, namelookup, connect, appconnect and starttransfer
\* time: <<d>> for Ok(d), <<>> for Err.
unwrap_or(option, default) == IF option = <<>> THEN default ELSE option[1]

phase_durations(times, dns_enabled) ==
    LET t_total == unwrap_or(times.total, 0)
        t_dns_raw == unwrap_or(times.namelookup, 0)
        t_connect_raw == unwrap_or(times.connect, t_dns_raw)
        t_tls_raw == unwrap_or(times.appconnect, t_connect_raw)
        t_ttfb_raw == unwrap_or(times.starttransfer, t_tls_raw)
    IN [t_dns |-> IF dns_enabled THEN <<t_dns_raw>> ELSE <<>>,
        t_connect |-> saturating_sub(t_connect_raw, t_dns_raw),
        t_tls |-> saturating_sub(t_tls_raw, t_connect_raw),
        t_ttfb |-> saturating_sub(t_ttfb_raw, t_tls_raw),
        t_download |-> saturating_sub(t_total, t_ttfb_raw),
        t_total |-> t_total]

\* ------------------------------------------- SpecProbe: scripted transport

MsgTimeout == <<"Timeout", "was", "reached">>
MsgResolving == <<"Timeout", "was", "reached", "Resolving", "timed", "out", "after", "ms">>
MsgResolvingUpper == <<"RESOLVING", "TIMED", "OUT">>
MsgTlsVersion == <<"TLS", "connect", "error", "unsupported", "protocol">>

ScriptErrors ==
    [code : {"OPERATION_TIMEDOUT", "COULDNT_RESOLVE_HOST", "WRITE_ERROR", "ABORTED_BY_CALLBACK",
             "SSL_CONNECT_ERROR"},
     message : {MsgTimeout, MsgResolving, MsgResolvingUpper, MsgTlsVersion}]

\* What the transport may do on the i-th transfer of a call (its clock reads i).
TransportOutcomes(i) ==
    [perform : {PerformOk} \cup ScriptErrors, status : {200, 404}, limit_reached : BOOLEAN,
     remote : {"198.51.100.7"}, start_ts : {i}, t_total : {10}]

ProbeTargets ==
    [id : {1}, url : [host : HostKinds], dns_enabled : BOOLEAN]

\* One call of client.probe(&target, &profile, resolved_ip).
ProbeCall(target, resolved_ip, script) ==
    /\ probeCall' = <<[target |-> target, resolved_ip |-> resolved_ip, script |-> script,
                       out |-> probe(target, [id |-> 1], resolved_ip, script)]>>
    /\ UNCHANGED <<storeVars, collector, global, tls13, sysVars>>

NextProbe ==
    /\ probeCall = <<>>
    /\ \E target \in ProbeTargets, resolved_ip \in {None, "198.51.100.7"},
          tr1 \in TransportOutcomes(1), tr2 \in TransportOutcomes(2) :
           ProbeCall(target, resolved_ip, <<tr1, tr2>>)

SpecProbe == Init /\ [][NextProbe]_vars

\* ------------------------------ SpecTimings: the phase durations of a sample

\* A reading of the transfer handle: missing, or 0..MaxTime.
TimeReadings == {<<>>} \cup {<<d>> : d \in 0..MaxTime}

TransferTimes ==
    [total : TimeReadings, namelookup : TimeReadings, connect : TimeReadings,
     appconnect : TimeReadings, starttransfer : TimeReadings]

\* probe_once builds the durations of one sample.
BuildDurations(times, dns_enabled) ==
    /\ probeCall' = <<[times |-> times, dns_enabled |-> dns_enabled,
                       out |-> phase_durations(times, dns_enabled)]>>
    /\ UNCHANGED <<storeVars, collector, global, tls13, sysVars>>

NextTimings ==
    /\ probeCall = <<>>
    /\ \E times \in TransferTimes, dns_enabled \in BOOLEAN :
           BuildDurations(times, dns_enabled)

SpecTimings == Init /\ [][NextTimings]_vars

\* ------------------------------------ SpecCollector: the body collector

\* probe_once resets the collector with the profile's max_read_bytes (0 for
\* HEAD); the transport then calls write and progress.
CollectorReset(limit) ==
    /\ collector' = BodyCollector_reset(collector, limit)
    /\ UNCHANGED <<storeVars, probeCall, global, tls13, sysVars>>

CollectorWrite(len) ==
    /\ collector.last.op # "default"
    /\ collector.offered + len <= MaxOffered
    /\ collector' = BodyCollector_write(collector, len)
    /\ UNCHANGED <<storeVars, probeCall, global, tls13, sysVars>>

CollectorProgress(dlnow) ==
    /\ collector.last.op # "default"
    /\ collector' = BodyCollector_progress(collector, dlnow)
    /\ UNCHANGED <<storeVars, probeCall, global, tls13, sysVars>>

NextCollector ==
    \/ \E limit \in 0..MaxLimit : CollectorReset(limit)
    \/ \E len \in 0..MaxChunk : CollectorWrite(len)
    \/ \E dlnow \in 0..MaxOffered : CollectorProgress(dlnow)

SpecCollector == Init /\ [][NextCollector]_vars

\* --------------------------------- SpecClassify: map_curl_error on its own

\* The codes the classifier tests for, and three it does not.
CurlCodes ==
    {"COULDNT_RESOLVE_HOST", "COULDNT_RESOLVE_PROXY", "OPERATION_TIMEDOUT", "COULDNT_CONNECT",
     "SSL_CONNECT_ERROR", "SSL_CACERT", "SSL_CERTPROBLEM", "SSL_CIPHER",
     "HTTP_RETURNED_ERROR", "READ_ERROR", "WRITE_ERROR", "ABORTED_BY_CALLBACK", "RECV_ERROR"}

\* Messages as helpers.rs tests them, with upper-case variants and messages
\* holding only a part of the TLS-version pattern.
CurlMessages ==
    {MsgTimeout, MsgResolving, MsgTlsVersion,
     <<"ssl_min_max_version", "not", "supported">>,
     <<"Unsupported", "protocol">>,
     <<"unsupported", "by", "protocol">>,
     <<"TLS", "version", "not", "supported">>,
     <<"tls", "unsupported", "by", "backend">>,
     <<"TLS", "connect", "error">>,
     <<"version", "unsupported">>,
     <<"connection", "refused">>,
     <<"ssl", "certificate", "error">>}

CurlErrors == [code : CurlCodes, message : CurlMessages]

\* One call of map_curl_error(&err).
Classify(err) ==
    /\ probeCall' = <<[err |-> err, out |-> map_curl_error(err)]>>
    /\ UNCHANGED <<storeVars, collector, global, tls13, sysVars>>

NextClassify == \E err \in CurlErrors : Classify(err)

SpecClassify == Init /\ [][NextClassify]_vars

\* ------------------------------------------ Spec: the UI thread and workers

RemoveAt(seq, i) == SubSeq(seq, 1, i - 1) \o SubSeq(seq, i + 1, Len(seq))

\* runtime.rs ControlMessage
Pause(flag) == [type |-> "Pause", flag |-> flag]
UpdateTarget(cfg) == [type |-> "UpdateTarget", cfg |-> cfg]
UpdateProfile(cfg) == [type |-> "UpdateProfile", cfg |-> cfg]
Stop == [type |-> "Stop"]

MsgInitFailed == <<"probe", "client", "init", "failed">>

\* SystemTime::now(): the wall clock, which never runs backwards and is read
\* here as the number of interval timeouts and UI edits so far.
SystemTime_now == events

\* runtime.rs error_sample
error_sample(target_id, profile_id, kind, message) ==
    [ts |-> SystemTime_now, target_id |-> target_id, profile_id |-> profile_id,
     result |-> ResultErr(kind, message), http_status |-> 0, remote |-> None,
     t_total |-> 0]

\* config.rs TargetConfig::new with add_target's sampling default; interval
\* counts units of the default 5 s.
TargetConfig_new(id) ==
    [id |-> id, url |-> [host |-> "Domain"], dns_enabled |-> TRUE,
     max_points |-> DefaultMaxPoints, interval |-> 1]

ProfileConfig_new(id) == [id |-> id, http |-> "H2"]

\* runtime.rs spawn_profile_worker and the locals of run_worker at its start.
\* enq, stops, probes, reads, ticks, sent, init_sample and send_failed record
\* what has happened to the thread: messages delivered to its channel, Stop
\* sends addressed to it, calls of client.probe, returns of recv/recv_timeout,
\* those of them that were timeouts, sends of a sample, the sample sent when
\* the client could not be created, whether a send has returned Err; waited
\* is the time the thread has spent in its present recv_timeout call, used
\* the target and profile config handed to the last call of client.probe.
spawn_profile_worker(target, profile) ==
    [pc |-> "start", paused |-> FALSE, resolved_ip |-> None,
     target |-> target, profile |-> profile, waited |-> 0, used |-> <<>>,
     ctrl |-> <<>>, connected |-> TRUE, init_failed |-> FALSE,
     enq |-> 0, stops |-> 0, probes |-> 0, reads |-> 0, ticks |-> 0, sent |-> 0,
     init_sample |-> <<>>, send_failed |-> FALSE]

\* Sender::send on a worker's control channel; it fails once the worker has
\* returned and dropped its receiver, and the callers ignore that.
ctrl_send(wk, msg) ==
    LET counted == IF msg = Stop THEN [wk EXCEPT !.stops = @ + 1] ELSE wk
    IN IF counted.pc = "done" THEN counted
       ELSE [counted EXCEPT !.ctrl = Append(@, msg), !.enq = @ + 1]

\* The thread returns: its receiver and what is queued in it are dropped.
worker_return(wk) == [wk EXCEPT !.pc = "done", !.ctrl = <<>>]

\* A worker that sends the error sample and goes on into its loop.
client_new_err_falls_through(wk) ==
    LET sample == error_sample(wk.target.id, wk.profile.id, "IoError", MsgInitFailed)
    IN [wk |-> [wk EXCEPT !.pc = "loop", !.init_failed = TRUE, !.sent = @ + 1,
                          !.init_sample = <<sample>>],
        out |-> <<sample>>]

\* run_worker when ProbeClient::new() gave Err: send the sample, return.
\* `wk` is the thread after the step, `out` the samples it sent in it.
client_new_err(wk) ==
    LET sample == error_sample(wk.target.id, wk.profile.id, "IoError", MsgInitFailed)
    IN [wk |-> worker_return([wk EXCEPT !.init_failed = TRUE, !.sent = @ + 1,
                                        !.init_sample = <<sample>>]),
        out |-> <<sample>>]

\* A worker that enters its loop without the initial probe.
initial_probe_skipped(wk, tr) == [wk |-> [wk EXCEPT !.pc = "loop"], out |-> <<>>]

\* A worker that probes once more by itself when the sample is an Err.
probe_and_send_again_on_err(wk, tr) ==
    LET sample == probe(wk.target, wk.profile, wk.resolved_ip, <<tr, tr>>).sample
    IN [wk |-> [wk EXCEPT !.pc = "loop",
                          !.resolved_ip = IF sample.remote # None THEN sample.remote ELSE @,
                          !.probes = @ + (IF sample.result = ResultOk THEN 1 ELSE 2),
                          !.sent = @ + 1],
        out |-> <<sample>>]

\* run_worker: client.probe(..), remember the peer, send the sample; the
\* thread is then at the head of its loop. `tr` is what the transport does.
probe_and_send(wk, tr) ==
    LET sample == probe(wk.target, wk.profile, wk.resolved_ip, <<tr, tr>>).sample
    IN [wk |-> [wk EXCEPT !.pc = "loop",
                          !.resolved_ip = IF sample.remote # None THEN sample.remote ELSE @,
                          !.probes = @ + 1, !.sent = @ + 1,
                          !.used = <<[target |-> wk.target, profile |-> wk.profile]>>],
        out |-> <<sample>>]

\* run_worker when ProbeClient::new() gave Ok: the initial probe.
initial_probe(wk, tr) == probe_and_send(wk, tr)

\* A paused worker that takes Stop off its channel and waits on.
on_control_paused_ignores_stop(wk, msg) ==
    CASE msg.type = "Pause" -> [wk EXCEPT !.paused = msg.flag]
      [] msg.type = "UpdateTarget" -> [wk EXCEPT !.target = msg.cfg]
      [] msg.type = "UpdateProfile" -> [wk EXCEPT !.profile = msg.cfg]
      [] msg.type = "Stop" -> wk

\* A paused worker that an UpdateTarget sets running again.
on_control_paused_update_resumes(wk, msg) ==
    CASE msg.type = "Pause" -> [wk EXCEPT !.paused = msg.flag]
      [] msg.type = "UpdateTarget" -> [wk EXCEPT !.target = msg.cfg, !.paused = FALSE]
      [] msg.type = "UpdateProfile" -> [wk EXCEPT !.profile = msg.cfg]
      [] msg.type = "Stop" -> worker_return(wk)

\* run_worker, `if paused { match control_rx.recv() .. }` on Ok(msg).
on_control_paused(wk, msg) ==
    CASE msg.type = "Pause" -> [wk EXCEPT !.paused = msg.flag]
      [] msg.type = "UpdateTarget" -> [wk EXCEPT !.target = msg.cfg]
      [] msg.type = "UpdateProfile" -> [wk EXCEPT !.profile = msg.cfg]
      [] msg.type = "Stop" -> worker_return(wk)

\* run_worker, `match control_rx.recv_timeout(target.interval)` on Ok(msg).
on_control_running(wk, msg) ==
    CASE msg.type = "Pause" -> [wk EXCEPT !.paused = msg.flag]
      [] msg.type = "UpdateTarget" -> [wk EXCEPT !.target = msg.cfg]
      [] msg.type = "UpdateProfile" -> [wk EXCEPT !.profile = msg.cfg]
      [] msg.type = "Stop" -> worker_return(wk)

\* A worker whose tick deadline is kept across the messages it receives.
received_keeps_deadline(wk) ==
    [wk EXCEPT !.reads = @ + 1, !.ctrl = IF @ = <<>> THEN @ ELSE Tail(@)]

\* recv / recv_timeout returned: the head of the queue is taken, if any; the
\* loop's next recv_timeout waits a full interval again.
received(wk) ==
    [wk EXCEPT !.reads = @ + 1, !.ctrl = IF @ = <<>> THEN @ ELSE Tail(@),
               !.waited = 0]

\* An apply_sample that stores every sample without looking its target up.
apply_sample_no_lookup(targets_, metrics_, sample) ==
    [targets |-> targets_,
     metrics |-> push_sample(metrics_, ProfileKey(sample.target_id, sample.profile_id),
                             sample, DefaultMaxPoints),
     accepted |-> TRUE]

\* state.rs apply_sample
apply_sample(targets_, metrics_, sample) ==
    LET key == ProfileKey(sample.target_id, sample.profile_id)
        found == {i \in DOMAIN targets_ : targets_[i].config.id = sample.target_id}
    IN IF found = {}
       THEN [targets |-> targets_, metrics |-> metrics_, accepted |-> FALSE]
       ELSE LET i == CHOOSE n \in found : \A m \in found : n <= m
                target == targets_[i]
                with_ip == IF sample.remote # None
                           THEN [target EXCEPT !.last_ip = sample.remote] ELSE target
                hits == {j \in DOMAIN target.profiles :
                            target.profiles[j].config.id = sample.profile_id}
            IN IF hits = {}
               THEN [targets |-> [targets_ EXCEPT ![i] = with_ip],
                     metrics |-> metrics_, accepted |-> FALSE]
               ELSE LET j == CHOOSE n \in hits : \A m \in hits : n <= m
                        last_error == IF sample.result = ResultOk THEN None
                                      ELSE sample.result.kind
                        updated == [with_ip EXCEPT
                                      !.profiles[j].last_sample = <<sample>>,
                                      !.profiles[j].last_error = last_error]
                    IN [targets |-> [targets_ EXCEPT ![i] = updated],
                        metrics |-> push_sample(metrics_, key, sample,
                                                target.config.max_points),
                        accepted |-> TRUE]

\* Bounds of the system model.
MaxTargets == 2   \* add_target calls
MaxProfiles == 2  \* profiles of one target
MaxWorkers == 2   \* worker threads spawned in all
MaxEvents == 2    \* interval timeouts and UI edits in all
MaxCtrl == 3      \* SpecWorker: control messages sent to the worker

\* What the transport does during a worker's probe started at `start_ts`: a
\* 200 from the peer, or an operation timeout before any peer was reached.
SysTransport(start_ts) ==
    {[perform |-> PerformOk, status |-> 200, limit_reached |-> FALSE,
      remote |-> "198.51.100.7", start_ts |-> start_ts, t_total |-> 10],
     [perform |-> [code |-> "OPERATION_TIMEDOUT", message |-> MsgTimeout], status |-> 0,
      limit_reached |-> FALSE, remote |-> None, start_ts |-> start_ts, t_total |-> 10]}

Idle == mainpc.op = "idle"

\* sample_tx.send(sample) with the result ignored: the samples are queued
\* while the receiver lives (until run_ui returns).
receiver_gone == mainpc.op \in {"exiting", "exited"}

\* A channel of capacity 1: send blocks while a sample is queued.
channel_has_room_bounded(chan) == Len(chan) < 1

\* main.rs: crossbeam_channel::unbounded(), so send never blocks.
channel_has_room(chan) == TRUE

\* A channel that hands the newest sample out first.
send_samples_newest_first(chan, out) ==
    IF receiver_gone THEN chan ELSE out \o chan

send_samples(chan, out) ==
    IF receiver_gone THEN chan ELSE chan \o out

\* The thread after sample_tx.send returned (Err when the receiver is gone).
after_send(wk, out) ==
    [wk EXCEPT !.send_failed = @ \/ (out # <<>> /\ receiver_gone)]

mainVars == <<targets, selected_target, mainpc, next_id, events, removed, rejected, metrics>>

\* ---- worker thread (runtime.rs run_worker)

\* ProbeClient::new() gives Ok; the initial probe is made and its sample sent.
WorkerStart(w) ==
    /\ workers[w].pc = "start"
    /\ channel_has_room(sample_chan)
    /\ \E tr \in SysTransport(SystemTime_now) :
        LET r == initial_probe(workers[w], tr)
        IN /\ workers' = [workers EXCEPT ![w] = after_send(r.wk, r.out)]
           /\ sample_chan' = send_samples(sample_chan, r.out)
    /\ UNCHANGED <<mainVars, pushLog, probeCall, collector, global, tls13>>

\* ProbeClient::new() gives Err.
WorkerStartErr(w) ==
    /\ workers[w].pc = "start"
    /\ channel_has_room(sample_chan)
    /\ LET r == client_new_err(workers[w])
       IN /\ workers' = [workers EXCEPT ![w] = after_send(r.wk, r.out)]
          /\ sample_chan' = send_samples(sample_chan, r.out)
    /\ UNCHANGED <<mainVars, pushLog, probeCall, collector, global, tls13>>

\* `if paused`: recv() blocks until a message arrives or the sender is dropped.
WorkerPausedRecv(w) ==
    /\ workers[w].pc = "loop" /\ workers[w].paused
    /\ LET wk == workers[w]
       IN IF wk.ctrl # <<>>
          THEN workers' = [workers EXCEPT ![w] = on_control_paused(received(wk), Head(wk.ctrl))]
          ELSE /\ ~wk.connected
               /\ workers' = [workers EXCEPT ![w] = worker_return(received(wk))]
    /\ UNCHANGED <<mainVars, sample_chan, pushLog, probeCall, collector, global, tls13>>

\* recv_timeout gives Ok(msg)
WorkerRecvMessage(w) ==
    /\ workers[w].pc = "loop" /\ ~workers[w].paused
    /\ workers[w].ctrl # <<>>
    /\ LET wk == workers[w]
       IN workers' = [workers EXCEPT ![w] = on_control_running(received(wk), Head(wk.ctrl))]
    /\ UNCHANGED <<mainVars, sample_chan, pushLog, probeCall, collector, global, tls13>>

\* recv_timeout gives Err(Disconnected)
WorkerRecvDisconnected(w) ==
    /\ workers[w].pc = "loop" /\ ~workers[w].paused
    /\ workers[w].ctrl = <<>> /\ ~workers[w].connected
    /\ workers' = [workers EXCEPT ![w] = worker_return(received(@))]
    /\ UNCHANGED <<mainVars, sample_chan, pushLog, probeCall, collector, global, tls13>>

\* A recv_timeout that can time out while messages are queued.
timed_out_with_messages(wk) == wk.connected

\* recv_timeout gives Err(Timeout) only if the channel stayed empty (and
\* connected) for the whole interval.
timed_out(wk) == wk.ctrl = <<>> /\ wk.connected

\* recv_timeout gives Err(Timeout): a probe is made and its sample sent.
WorkerRecvTimeout(w) ==
    /\ workers[w].pc = "loop" /\ ~workers[w].paused
    /\ timed_out(workers[w])
    /\ channel_has_room(sample_chan)
    /\ events < MaxEvents
    /\ events' = events + 1
    /\ \E tr \in SysTransport(SystemTime_now + 1) :
        LET r == probe_and_send([received(workers[w]) EXCEPT !.ticks = @ + 1], tr)
        IN /\ workers' = [workers EXCEPT ![w] = after_send(r.wk, r.out)]
           /\ sample_chan' = send_samples(sample_chan, r.out)
    /\ UNCHANGED <<targets, selected_target, mainpc, next_id, removed, rejected, metrics,
                   pushLog, probeCall, collector, global, tls13>>

\* ---- UI thread (state.rs AppState, ui/mod.rs run_ui)

\* AppState::add_target with n profiles.
add_target(n) ==
    /\ next_id < MaxTargets
    /\ Cardinality(DOMAIN workers) + n <= MaxWorkers
    /\ LET id == next_id + 1
           config == TargetConfig_new(id)
           profiles == [p \in 1..n |->
                          [config |-> ProfileConfig_new(p), last_sample |-> <<>>,
                           last_error |-> None]]
           spawned == [k \in {ProfileKey(id, p) : p \in 1..n} |->
                          spawn_profile_worker(config, ProfileConfig_new(k[2]))]
       IN /\ targets' = Append(targets, [config |-> config, paused |-> FALSE,
                                          last_ip |-> None, profiles |-> profiles])
          /\ workers' = workers @@ spawned
          /\ selected_target' = saturating_sub(Len(targets'), 1)
          /\ next_id' = id

\* add_target called by the UI's add-target command.
AddTarget(n) ==
    /\ Idle
    /\ add_target(n)
    /\ UNCHANGED <<sample_chan, mainpc, events, removed, rejected, metrics, pushLog, probeCall, collector, global, tls13>>

\* remove_target up to the first join(): the target leaves the list and the
\* first profile's worker is sent Stop.
RemoveTarget(index) ==
    /\ Idle
    /\ IF index >= Len(targets)
       THEN UNCHANGED <<targets, workers, mainpc>>
       ELSE LET target == targets[index + 1]
                w == WorkerKey(target, target.profiles[1])
            IN /\ targets' = RemoveAt(targets, index + 1)
               /\ workers' = [workers EXCEPT ![w] = ctrl_send(@, Stop)]
               /\ mainpc' = [op |-> "remove", target |-> target, k |-> 1]
    /\ UNCHANGED <<selected_target, sample_chan, next_id, events, removed, rejected,
                   metrics, pushLog, probeCall, collector, global, tls13>>

\* A remove_target that sends Stop and does not wait for the thread.
RemoveJoin_detached ==
    /\ mainpc.op = "remove"
    /\ LET target == mainpc.target
           k == mainpc.k
       IN IF k < Len(target.profiles)
          THEN /\ workers' = [workers EXCEPT ![WorkerKey(target, target.profiles[k + 1])] =
                                 ctrl_send(@, Stop)]
               /\ mainpc' = [mainpc EXCEPT !.k = k + 1]
               /\ UNCHANGED <<selected_target, removed>>
          ELSE /\ workers' = [x \in DOMAIN workers |->
                                 IF x[1] = target.config.id
                                 THEN [workers[x] EXCEPT !.connected = FALSE]
                                 ELSE workers[x]]
               /\ selected_target' = saturating_sub(selected_target, 1)
               /\ removed' = removed \cup {target.config.id}
               /\ mainpc' = [op |-> "idle"]
    /\ UNCHANGED <<targets, sample_chan, next_id, events, rejected, metrics, pushLog, probeCall, collector, global, tls13>>

\* remove_target from a join() on: the joined thread has returned; the next
\* profile's worker is sent Stop, or the loop ends and remove_target returns.
RemoveJoin ==
    /\ mainpc.op = "remove"
    /\ LET target == mainpc.target
           k == mainpc.k
       IN /\ workers[WorkerKey(target, target.profiles[k])].pc = "done"
          /\ IF k < Len(target.profiles)
             THEN /\ workers' = [workers EXCEPT ![WorkerKey(target, target.profiles[k + 1])] =
                                    ctrl_send(@, Stop)]
                  /\ mainpc' = [mainpc EXCEPT !.k = k + 1]
                  /\ UNCHANGED <<selected_target, removed>>
             ELSE /\ workers' = [x \in DOMAIN workers |->
                                    IF x[1] = target.config.id
                                    THEN [workers[x] EXCEPT !.connected = FALSE]
                                    ELSE workers[x]]
                  /\ selected_target' = saturating_sub(selected_target, 1)
                  /\ removed' = removed \cup {target.config.id}
                  /\ mainpc' = [op |-> "idle"]
    /\ UNCHANGED <<targets, sample_chan, next_id, events, rejected, metrics, pushLog, probeCall, collector, global, tls13>>

\* A broadcast that reaches the workers of every target.
broadcast_to_all(ws, target, msg) == [x \in DOMAIN ws |-> ctrl_send(ws[x], msg)]

\* Every worker of `target` is sent `msg`.
broadcast(ws, target, msg) ==
    [x \in DOMAIN ws |->
        IF \E j \in DOMAIN target.profiles : x = WorkerKey(target, target.profiles[j])
        THEN ctrl_send(ws[x], msg) ELSE ws[x]]

TogglePause(index) ==
    /\ Idle
    /\ events < MaxEvents
    /\ IF index >= Len(targets)
       THEN UNCHANGED <<targets, workers, events>>
       ELSE LET paused == ~targets[index + 1].paused
            IN /\ events' = events + 1
               /\ targets' = [targets EXCEPT ![index + 1].paused = paused]
               /\ workers' = broadcast(workers, targets[index + 1], Pause(paused))
    /\ UNCHANGED <<selected_target, sample_chan, mainpc, next_id, removed, rejected,
                   metrics, pushLog, probeCall, collector, global, tls13>>

\* update_target_config as the settings screen calls it: the stored config
\* with one field edited.
UpdateTargetConfig(index) ==
    /\ Idle
    /\ events < MaxEvents
    /\ IF index >= Len(targets)
       THEN UNCHANGED <<targets, workers, events>>
       ELSE LET updated == [targets[index + 1].config EXCEPT !.dns_enabled = ~@]
            IN /\ events' = events + 1
               /\ targets' = [targets EXCEPT ![index + 1].config = updated]
               /\ workers' = broadcast(workers, targets[index + 1], UpdateTarget(updated))
    /\ UNCHANGED <<selected_target, sample_chan, mainpc, next_id, removed, rejected,
                   metrics, pushLog, probeCall, collector, global, tls13>>

UpdateProfileConfig(target_index, profile_index) ==
    /\ Idle
    /\ events < MaxEvents
    /\ IF target_index >= Len(targets)
       THEN UNCHANGED <<targets, workers, events>>
       ELSE LET target == targets[target_index + 1]
            IN IF profile_index >= Len(target.profiles)
               THEN UNCHANGED <<targets, workers, events>>
               ELSE LET j == profile_index + 1
                        updated == [target.profiles[j].config EXCEPT !.http = "H1"]
                    IN /\ events' = events + 1
                       /\ targets' = [targets EXCEPT
                                         ![target_index + 1].profiles[j].config = updated]
                       /\ workers' = [workers EXCEPT ![WorkerKey(target, target.profiles[j])] =
                                         ctrl_send(@, UpdateProfile(updated))]
    /\ UNCHANGED <<selected_target, sample_chan, mainpc, next_id, removed, rejected,
                   metrics, pushLog, probeCall, collector, global, tls13>>

\* run_ui: `while let Ok(sample) = sample_rx.try_recv() { app.apply_sample(sample) }`
DrainSample ==
    /\ Idle
    /\ sample_chan # <<>>
    /\ LET sample == Head(sample_chan)
           r == apply_sample(targets, metrics, sample)
       IN /\ targets' = r.targets
          /\ metrics' = r.metrics
          /\ rejected' = IF r.accepted THEN rejected
                          ELSE rejected \cup {ProfileKey(sample.target_id, sample.profile_id)}
    /\ sample_chan' = Tail(sample_chan)
    /\ UNCHANGED <<selected_target, workers, mainpc, next_id, events, removed, pushLog, probeCall, collector, global, tls13>>

\* run_ui returns: its locals and then its parameters are dropped, last
\* declared first, so sample_tx and sample_rx go before app. No thread is
\* joined.
Quit ==
    /\ Idle
    /\ mainpc' = [op |-> "exiting"]
    /\ sample_chan' = <<>>
    /\ UNCHANGED <<targets, selected_target, workers, next_id, events, removed, rejected,
                   metrics, pushLog, probeCall, collector, global, tls13>>

\* app is dropped, and with it every worker's control sender.
DropApp ==
    /\ mainpc.op = "exiting"
    /\ mainpc' = [op |-> "exited"]
    /\ workers' = [x \in DOMAIN workers |-> [workers[x] EXCEPT !.connected = FALSE]]
    /\ UNCHANGED <<targets, selected_target, sample_chan, next_id, events, removed,
                   rejected, metrics, pushLog, probeCall, collector, global, tls13>>

Next ==
    \/ \E w \in DOMAIN workers :
        \/ WorkerStart(w)
        \/ WorkerStartErr(w)
        \/ WorkerPausedRecv(w)
        \/ WorkerRecvMessage(w)
        \/ WorkerRecvDisconnected(w)
        \/ WorkerRecvTimeout(w)
    \/ \E n \in 1..MaxProfiles : AddTarget(n)
    \/ \E index \in 0..Len(targets) : RemoveTarget(index)
    \/ RemoveJoin
    \/ \E index \in 0..Len(targets) : TogglePause(index)
    \/ \E index \in 0..Len(targets) : UpdateTargetConfig(index)
    \/ \E index \in 0..Len(targets), profile_index \in 0..MaxProfiles :
        UpdateProfileConfig(index, profile_index)
    \/ DrainSample
    \/ Quit
    \/ DropApp

Spec == Init /\ [][Next]_vars

\* ------------------- SpecApply: apply_sample on samples of any provenance

\* Samples with ids of current, removed and never created targets and
\* profiles, with and without a peer address, Ok and Err.
InjectedSamples ==
    [ts : {0}, target_id : 1..(MaxTargets + 1), profile_id : 1..(MaxProfiles + 1),
     result : {ResultOk, ResultErr("HttpTimeout", MsgTimeout)}, http_status : {200},
     remote : {None, "198.51.100.7"}, t_total : {10}]

\* Any holder of a clone of sample_tx sends `sample`.
InjectSample(sample) ==
    /\ Idle
    /\ events < MaxEvents
    /\ events' = events + 1
    /\ sample_chan' = Append(sample_chan, sample)
    /\ UNCHANGED <<targets, selected_target, workers, mainpc, next_id, removed, rejected,
                   metrics, pushLog, probeCall, collector, global, tls13>>

\* Targets are added, samples arrive and run_ui applies them; the workers
\* themselves are not scheduled.
NextApply ==
    \/ \E n \in 1..MaxProfiles : AddTarget(n)
    \/ \E sample \in InjectedSamples : InjectSample(sample)
    \/ DrainSample

SpecApply == Init /\ [][NextApply]_vars

\* ------------------------- SpecWorker: one worker and its control channel

\* The messages a holder of WorkerHandle.sender can send.
ControlMessages(wk) ==
    {Pause(TRUE), Pause(FALSE), Stop,
     UpdateTarget([wk.target EXCEPT !.dns_enabled = ~@]),
     UpdateProfile([wk.profile EXCEPT !.http = "H1"])}

\* spawn_profile_worker for one target with one profile.
SpawnWorker ==
    /\ next_id = 0
    /\ AddTarget(1)

\* sender.send(msg) by whoever holds the handle, in any order and at any time
\* (once the worker has returned a send fails and changes nothing).
ControlSend(w, msg) ==
    /\ workers[w].connected
    /\ workers[w].pc # "done"
    /\ workers[w].enq < MaxCtrl
    /\ workers' = [workers EXCEPT ![w] = ctrl_send(@, msg)]
    /\ UNCHANGED <<mainVars, sample_chan, pushLog, probeCall, collector, global, tls13>>

\* The handle, with its sender, is dropped.
ControlDrop(w) ==
    /\ workers[w].connected
    /\ workers' = [workers EXCEPT ![w].connected = FALSE]
    /\ UNCHANGED <<mainVars, sample_chan, pushLog, probeCall, collector, global, tls13>>

NextWorker ==
    \/ SpawnWorker
    \/ \E w \in DOMAIN workers :
        \/ WorkerStart(w)
        \/ WorkerStartErr(w)
        \/ WorkerPausedRecv(w)
        \/ WorkerRecvMessage(w)
        \/ WorkerRecvDisconnected(w)
        \/ WorkerRecvTimeout(w)
        \/ \E msg \in ControlMessages(workers[w]) : ControlSend(w, msg)
        \/ ControlDrop(w)

SpecWorker == Init /\ [][NextWorker]_vars

\* The one worker SpecWorker spawns.
WorkerIds == {ProfileKey(1, 1)}

\* Any step of worker w's thread.
WorkerStep(w) ==
    /\ w \in DOMAIN workers
    /\ \/ WorkerStart(w)
       \/ WorkerStartErr(w)
       \/ WorkerPausedRecv(w)
       \/ WorkerRecvMessage(w)
       \/ WorkerRecvDisconnected(w)
       \/ WorkerRecvTimeout(w)

\* The worker thread is scheduled whenever it can run (the OS scheduler), and
\* ProbeClient::new and every probe return (curl's timeouts).
SpecWorkerFair == SpecWorker /\ \A w \in WorkerIds : WF_vars(WorkerStep(w))

\* ---------------------------------------------------- claims on SpecProbe

\* The claim's own reading of the DNS-timeout signature: the words
\* "resolving timed out" in any letter case.
HasResolvingTimedOut(message) ==
    \E i \in 1..(Len(message) - 2) :
        /\ Lower(message[i]) = "resolving"
        /\ Lower(message[i + 1]) = "timed"
        /\ Lower(message[i + 2]) = "out"

FirstAttemptDnsTimeout(call) ==
    /\ call.script[1].perform.code = "OPERATION_TIMEDOUT"
    /\ HasResolvingTimedOut(call.script[1].perform.message)

\* C6: every call of probe returns exactly one sample (never fails without
\* one), makes at most two transfers, and makes exactly one whenever
\* dns_enabled is false or the URL host is an IP literal.
C6_OneSampleAtMostTwoAttempts ==
    probeCall # <<>> =>
        LET call == probeCall[1]
            attempts == Len(call.out.performed)
        IN /\ call.out.sample # [panic |-> TRUE]
           /\ attempts \in {1, 2}
           /\ (~call.target.dns_enabled \/ HostIsIpLiteral(call.target)) => attempts = 1

\* C7: a first attempt that fails with an operation-timed-out error whose
\* message has the DNS-timeout signature, with dns_enabled and a host that is
\* not an IP literal, is followed by exactly one IPv4-only attempt whose sample
\* is returned; in every other case the first attempt's sample is returned
\* and no retry is made.
C7_RetryExactlyOnDnsTimeout ==
    probeCall # <<>> =>
        LET call == probeCall[1]
            done == call.out.performed
        IN IF /\ FirstAttemptDnsTimeout(call)
              /\ call.target.dns_enabled
              /\ ~HostIsIpLiteral(call.target)
           THEN /\ Len(done) = 2
                /\ done[1].ip_resolve = "Any" /\ done[2].ip_resolve = "V4"
                /\ call.out.sample = done[2].sample
                /\ call.out.sample.ts = call.script[2].start_ts
           ELSE /\ Len(done) = 1
                /\ call.out.sample = done[1].sample
                /\ call.out.sample.ts = call.script[1].start_ts

\* ---------------------------------------------------- claims on SpecStore

LastPush == pushLog[Len(pushLog)]

\* The pushes made under `key`, in call order.
PushesTo(key) == SelectSeq(pushLog, LAMBDA p : p.key = key)

Min2(a, b) == IF a < b THEN a ELSE b

\* Instants and windows at which the queries are compared.
QueryNows == {0, 40, 60, 90, 400}

\* C1: immediately after push_sample(k, sample, max_points) returns, the queue
\* under k is no longer than the max_points of that call, also when max_points
\* is smaller than on earlier pushes to k and when it is 0.
C1_StoreBound ==
    pushLog # <<>> => Len(queue_of(metrics, LastPush.key)) <= LastPush.max_points

\* C1 witness: two samples were stored under k with max_points = 2, then one
\* push with max_points = 0 evicted all three.
C1_Witness ==
    /\ Len(pushLog) = 3
    /\ \A i \in 1..3 : pushLog[i].key = LastPush.key
    /\ pushLog[1].max_points = 2 /\ pushLog[2].max_points = 2
    /\ LastPush.max_points = 0
    /\ queue_of(metrics, LastPush.key) = <<>>

ConstantBound(ps) ==
    /\ ps # <<>>
    /\ ps[1].max_points >= 1
    /\ \A i \in 1..Len(ps) : ps[i].max_points = ps[1].max_points

IsScenarioS1(ps) ==
    /\ Len(ps) = 3
    /\ \A i \in 1..3 : ps[i].sample.result = ResultOk /\ ps[i].max_points = 2
    /\ ps[1].sample.t_total = 10 /\ ps[2].sample.t_total = 20 /\ ps[3].sample.t_total = 30

\* C2: under a constant bound m >= 1 the queue of k is exactly the last
\* min(n, m) samples pushed under k, in push order; queries iterate them in
\* that order; Ok samples of 10, 20, 30 ms with m = 2 give Total n = 2,
\* min = 20, max = 30, last = 30.
C2_PushOrder ==
    \A key \in StoreKeys :
        LET ps == PushesTo(key)
            n == Len(ps)
            kept == Min2(n, ps[1].max_points)
            q == queue_of(metrics, key)
            now == StoreTs(Len(pushLog))
        IN ConstantBound(ps) =>
            /\ q = [i \in 1..kept |-> ps[n - kept + i].sample]
            /\ \A i, j \in 1..Len(q) : i < j => q[i].ts < q[j].ts
            /\ LET ys == timeseries_with_clock(metrics, key, "M1", now)
               IN \A i, j \in 1..Len(ys) : i < j => ys[i][1] < ys[j][1]
            /\ IsScenarioS1(ps) =>
                 windowed_aggregate_with_clock(metrics, key, "M1", now).Total
                    = [n |-> 2, last |-> 30, min |-> 20, max |-> 30]

\* C2 witness: scenario S1 has run (three pushes, the first one evicted).
C2_Witness ==
    \E key \in StoreKeys :
        /\ IsScenarioS1(PushesTo(key))
        /\ Len(queue_of(metrics, key)) = 2
        /\ queue_of(metrics, key)[1].t_total = 20

\* C5: a push under (t,p) leaves the queue of every other key (t',p') as it
\* was, and windowed_aggregate, timeseries and timeout_events of (t',p')
\* return the same before and after it, under the same clock.
C5_NoCrossKeyBleed ==
    [][pushLog' # pushLog =>
        \A k \in StoreKeys \ {pushLog'[Len(pushLog')].key} :
            /\ (k \in DOMAIN metrics') = (k \in DOMAIN metrics)
            /\ queue_of(metrics', k) = queue_of(metrics, k)
            /\ \A window \in WindowSpec, now \in QueryNows :
                /\ windowed_aggregate_with_clock(metrics', k, window, now)
                     = windowed_aggregate_with_clock(metrics, k, window, now)
                /\ timeseries_with_clock(metrics', k, window, now)
                     = timeseries_with_clock(metrics, k, window, now)
                /\ timeout_events_with_clock(metrics', k, window, now)
                     = timeout_events_with_clock(metrics, k, window, now)]_vars

\* C5 witness: the last push went to one key with max_points = 0 while
\* another key still holds two samples.
C5_Witness ==
    /\ pushLog # <<>>
    /\ LastPush.max_points = 0
    /\ \E k \in StoreKeys \ {LastPush.key} : Len(queue_of(metrics, k)) = 2

\* --------------------------------------------------------- claims on Spec

\* The step is run_ui taking one sample off the channel into apply_sample.
IsApplySample ==
    /\ mainpc.op = "idle" /\ mainpc'.op = "idle"
    /\ sample_chan # <<>>
    /\ sample_chan' = Tail(sample_chan)

\* C3: once remove_target has returned for a target, apply_sample pushes no
\* sample carrying its id, whether sent before or after the removal: the
\* queue under every key of that id never changes again, and applying such a
\* sample leaves the store and the targets as they were.
C3_RemovedTargetSamplesDropped ==
    [][\A id \in removed :
        /\ \A key \in (DOMAIN metrics) \cup (DOMAIN metrics') :
             key[1] = id =>
                /\ key \in DOMAIN metrics /\ key \in DOMAIN metrics'
                /\ metrics'[key] = metrics[key]
        /\ (IsApplySample /\ Head(sample_chan).target_id = id) =>
             /\ targets' = targets
             /\ metrics' = metrics]_vars

\* C3 witness: a sample of a removed target was taken off the channel and
\* not stored, while samples of that target taken before the removal are kept.
C3_Witness ==
    \E key \in rejected :
        /\ key[1] \in removed
        /\ key \in DOMAIN metrics
        /\ metrics[key] # <<>>

\* C4: from its first send to its return, remove_target sends Stop, once, to
\* each worker of the removed target and nothing to any other worker; when it
\* returns every worker of that target has terminated, and from then on it
\* stays terminated and sends no sample.
C4_RemoveStopsAndJoins ==
    [][/\ (mainpc.op = "remove" \/ mainpc'.op = "remove") =>
            LET id == IF mainpc'.op = "remove" THEN mainpc'.target.config.id
                      ELSE mainpc.target.config.id
            IN \A w \in DOMAIN workers :
                IF w[1] = id
                THEN \/ workers'[w].ctrl = workers[w].ctrl
                     \/ workers'[w].ctrl = Append(workers[w].ctrl, Stop)
                     \/ workers'[w].ctrl = Tail(workers[w].ctrl)
                     \/ workers'[w].pc = "done"
                ELSE /\ workers'[w].enq = workers[w].enq
                     /\ workers'[w].stops = workers[w].stops
       /\ (mainpc.op = "remove" /\ mainpc'.op = "idle") =>
            \A w \in DOMAIN workers :
                w[1] = mainpc.target.config.id =>
                    /\ workers'[w].pc = "done"
                    /\ workers'[w].stops = 1
       /\ \A w \in DOMAIN workers' :
            w[1] \in removed' => workers'[w].pc = "done"
       /\ \A w \in DOMAIN workers :
            w[1] \in removed => workers'[w].sent = workers[w].sent]_vars

\* C4 witness: remove_target has returned for a target whose worker had read
\* its Stop, while the worker of another target runs on with nothing sent to it.
C4_Witness ==
    /\ mainpc.op = "idle"
    /\ \E w1, w2 \in DOMAIN workers :
        /\ w1[1] \in removed
        /\ workers[w1].reads >= 1 /\ workers[w1].enq = 1
        /\ w2[1] \notin removed
        /\ workers[w2].pc = "loop" /\ workers[w2].enq = 0

\* --------------------------------------------------- claims on SpecWorker

\* C8: the step by which a worker whose client was created leaves its start
\* is one probe and the send of its sample, with nothing read from the
\* control channel, whatever is queued there; no worker has read its control
\* channel without having sent a sample.
C8_InitialProbeBeforeControl ==
    [][\A w \in DOMAIN workers :
        /\ (workers[w].pc = "start" /\ workers'[w].pc # "start"
                /\ ~workers'[w].init_failed) =>
             /\ workers'[w].probes = 1 /\ workers'[w].sent = 1
             /\ workers'[w].reads = 0 /\ workers[w].reads = 0
             /\ workers'[w].ctrl = workers[w].ctrl
             /\ Len(sample_chan') = Len(sample_chan) + 1
             /\ sample_chan'[Len(sample_chan')].target_id = w[1]
             /\ sample_chan'[Len(sample_chan')].profile_id = w[2]
        /\ workers'[w].reads > 0 => workers'[w].sent >= 1]_vars

\* C8 witness: the worker has sent its first sample and read nothing, with a
\* Stop and two more messages waiting in its channel.
C8_Witness ==
    \E w \in DOMAIN workers :
        /\ workers[w].pc = "loop"
        /\ workers[w].sent = 1 /\ workers[w].reads = 0
        /\ Len(workers[w].ctrl) = 3
        /\ Head(workers[w].ctrl) = Stop

\* C9: a worker whose client could not be created has sent exactly one
\* sample, an Err of kind IoError with its own target and profile ids, has
\* made no probe, has read no control message and has terminated.
C9_InitFailure ==
    \A w \in DOMAIN workers :
        workers[w].init_failed =>
            /\ workers[w].pc = "done"
            /\ workers[w].sent = 1
            /\ workers[w].probes = 0
            /\ workers[w].reads = 0
            /\ Len(workers[w].init_sample) = 1
            /\ workers[w].init_sample[1].result.tag = "Err"
            /\ workers[w].init_sample[1].result.kind = "IoError"
            /\ workers[w].init_sample[1].target_id = w[1]
            /\ workers[w].init_sample[1].profile_id = w[2]
            /\ sample_chan = workers[w].init_sample

\* C9 witness: the client could not be created while two control messages
\* were waiting for the worker.
C9_Witness ==
    \E w \in DOMAIN workers :
        /\ workers[w].init_failed
        /\ workers[w].enq = 2

\* C10: a paused worker makes no probe and sends no sample; it is resumed
\* only by reading Pause(false), and reading Pause(true), UpdateTarget or
\* UpdateProfile leaves it paused.
C10_PausedEmitsNothing ==
    [][\A w \in DOMAIN workers :
        workers[w].paused =>
            /\ workers'[w].probes = workers[w].probes
            /\ workers'[w].sent = workers[w].sent
            /\ sample_chan' = sample_chan
            /\ ~workers'[w].paused =>
                 /\ workers[w].ctrl # <<>>
                 /\ Head(workers[w].ctrl) = Pause(FALSE)
                 /\ workers'[w].reads = workers[w].reads + 1
            /\ (workers'[w].reads = workers[w].reads + 1 /\ workers[w].ctrl # <<>>) =>
                 IF Head(workers[w].ctrl) = Pause(FALSE)
                 THEN ~workers'[w].paused /\ workers'[w].pc = "loop"
                 ELSE IF Head(workers[w].ctrl) = Stop
                 THEN workers'[w].paused /\ workers'[w].pc = "done"
                 ELSE workers'[w].paused /\ workers'[w].pc = "loop"]_vars

\* C10 witness: a paused worker has read an UpdateTarget and an UpdateProfile
\* after its Pause(true) and waits, still paused, with its channel empty.
C10_Witness ==
    \E w \in DOMAIN workers :
        /\ workers[w].paused /\ workers[w].pc = "loop"
        /\ workers[w].reads = 3 /\ workers[w].sent = 1
        /\ workers[w].ctrl = <<>>
        /\ ~workers[w].target.dns_enabled
        /\ workers[w].profile.http = "H1"

\* C11: from Running and from Paused, taking Stop off the control channel or
\* finding it disconnected ends the thread; a terminated worker stays so and
\* probes and sends nothing; and a worker that was sent Stop, or whose sender
\* was dropped, eventually terminates.
C11_StopTerminates ==
    /\ [][\A w \in DOMAIN workers :
            /\ workers[w].pc = "done" =>
                 /\ workers'[w].pc = "done"
                 /\ workers'[w].sent = workers[w].sent
                 /\ workers'[w].probes = workers[w].probes
                 /\ sample_chan' = sample_chan
            /\ (/\ workers[w].pc = "loop"
                /\ workers'[w].reads = workers[w].reads + 1
                /\ \/ workers[w].ctrl # <<>> /\ Head(workers[w].ctrl) = Stop
                   \/ workers[w].ctrl = <<>> /\ ~workers[w].connected) =>
                 /\ workers'[w].pc = "done"
                 /\ workers'[w].sent = workers[w].sent]_vars
    /\ \A w \in WorkerIds :
        (w \in DOMAIN workers /\ (workers[w].stops >= 1 \/ ~workers[w].connected))
            ~> (w \in DOMAIN workers /\ workers[w].pc = "done")

\* C11 witness: a worker that was paused read a Stop behind its Pause(true)
\* and has terminated.
C11_Witness ==
    \E w \in DOMAIN workers :
        /\ workers[w].pc = "done" /\ workers[w].paused
        /\ workers[w].stops = 1 /\ workers[w].reads = 2
        /\ workers[w].connected

\* C12: a worker whose send of a sample has failed (the receiver is gone)
\* makes no further probe.
C12_NoProbeAfterFailedSend ==
    [][\A w \in DOMAIN workers :
        workers[w].send_failed => workers'[w].probes = workers[w].probes]_vars

\* C13: a tick of a running worker (recv_timeout timing out) makes exactly
\* one probe and sends exactly one sample, Ok or Err; no other step of the
\* worker after its start probes or sends; so a worker whose client was
\* created has sent 1 + ticks samples and made as many probes.
C13_OneSamplePerTick ==
    [][\A w \in DOMAIN workers :
        /\ workers[w].pc # "start" =>
             IF workers'[w].ticks = workers[w].ticks + 1
             THEN /\ workers[w].pc = "loop" /\ ~workers[w].paused
                  /\ workers[w].ctrl = <<>>
                  /\ workers'[w].probes = workers[w].probes + 1
                  /\ workers'[w].sent = workers[w].sent + 1
                  /\ Len(sample_chan') = Len(sample_chan) + 1
             ELSE /\ workers'[w].ticks = workers[w].ticks
                  /\ workers'[w].probes = workers[w].probes
                  /\ workers'[w].sent = workers[w].sent
                  /\ sample_chan' = sample_chan
        /\ (workers'[w].pc # "start" /\ ~workers'[w].init_failed) =>
             /\ workers'[w].sent = 1 + workers'[w].ticks
             /\ workers'[w].probes = 1 + workers'[w].ticks]_vars

\* C13 witness: two ticks followed startup; the first tick's sample was an
\* Err and the next tick was an ordinary one: three samples in all.
C13_Witness ==
    \E w \in DOMAIN workers :
        /\ workers[w].ticks = 2 /\ workers[w].sent = 3 /\ workers[w].probes = 3
        /\ Len(sample_chan) = 3
        /\ sample_chan[2].result # ResultOk
        /\ sample_chan[3].result = ResultOk

\* ---------------------------------------------------- claims on SpecApply

TargetMatches(sample) ==
    \E i \in DOMAIN targets : targets[i].config.id = sample.target_id

ProfileMatches(sample) ==
    \E i \in DOMAIN targets :
        /\ targets[i].config.id = sample.target_id
        /\ \E j \in DOMAIN targets[i].profiles :
            targets[i].profiles[j].config.id = sample.profile_id

\* No target's last_ip and no profile's last_sample or last_error changes.
LastFieldsUnchanged ==
    /\ Len(targets') = Len(targets)
    /\ \A i \in DOMAIN targets :
        /\ targets'[i].last_ip = targets[i].last_ip
        /\ \A j \in DOMAIN targets[i].profiles :
            /\ targets'[i].profiles[j].last_sample = targets[i].profiles[j].last_sample
            /\ targets'[i].profiles[j].last_error = targets[i].profiles[j].last_error

\* C14: apply_sample of a sample whose target_id matches no current target,
\* or whose profile_id matches no profile of the matched target, changes
\* nothing: not the store, no target's last_ip, no profile's last_sample or
\* last_error.
C14_UnmatchedSampleDropped ==
    [][(IsApplySample /\ ~ProfileMatches(Head(sample_chan))) =>
            /\ metrics' = metrics
            /\ LastFieldsUnchanged]_vars

\* ------------------------------------------------ claims on SpecAggregate

\* The positions of the queue under `key` that lie in the window ending at `now`.
InWindowIdx(key, window, now) ==
    {i \in 1..Len(queue_of(metrics, key)) :
        queue_of(metrics, key)[i].ts >= cutoff_of(now, window)}

ErrIdx(key, window, now) ==
    {i \in InWindowIdx(key, window, now) : queue_of(metrics, key)[i].result.tag = "Err"}

OkIdx(key, window, now) ==
    {i \in InWindowIdx(key, window, now) : queue_of(metrics, key)[i].result.tag = "Ok"}

\* `value` is the fraction num / den.
IsFraction(value, num, den) ==
    /\ Len(value) = 1
    /\ value[1].den > 0
    /\ value[1].num * den = num * value[1].den

\* The samples stored under `key` are Ok, Err(HttpTimeout), Ok.
IsOkTimeoutOk(key) ==
    LET q == queue_of(metrics, key)
    IN /\ Len(q) = 3
       /\ q[1].result.tag = "Ok"
       /\ q[2].result.tag = "Err" /\ q[2].result.kind = "HttpTimeout"
       /\ q[3].result.tag = "Ok"

\* C15: for every key and window, ProbeLossRate.n is the number of in-window
\* samples (Ok and Err); its mean, last, min, max, p50, p90 and p99 are
\* error_samples / total_samples when there is an in-window sample and None
\* when there is none; Ok, Err(HttpTimeout), Ok gives n = 3, mean = 1/3,
\* Total.n = 2 and error_breakdown[HttpTimeout] = 1.
C15_ProbeLossRate ==
    \A key \in AggregateKeys, window \in WindowSpec, now \in QueryNows :
        LET agg == windowed_aggregate_with_clock(metrics, key, window, now)
            rate == agg.ProbeLossRate
            total_samples == Cardinality(InWindowIdx(key, window, now))
            error_samples == Cardinality(ErrIdx(key, window, now))
        IN /\ rate.n = total_samples
           /\ \A field \in {"mean", "last", "min", "max", "p50", "p90", "p99"} :
                IF total_samples > 0
                THEN IsFraction(rate[field], error_samples, total_samples)
                ELSE rate[field] = <<>>
           /\ (IsOkTimeoutOk(key) /\ total_samples = 3) =>
                /\ rate.n = 3
                /\ IsFraction(rate.mean, 1, 3)
                /\ agg.Total.n = 2
                /\ agg.error_breakdown["HttpTimeout"] = 1

\* C15 witness: Ok, Err(HttpTimeout), Ok are stored under one key and all lie
\* in the one-minute window ending at 60 s; the same key has an empty window
\* at 400 s.
C15_Witness ==
    \E key \in AggregateKeys :
        /\ IsOkTimeoutOk(key)
        /\ windowed_aggregate_with_clock(metrics, key, "M1", 60).ProbeLossRate.n = 3
        /\ windowed_aggregate_with_clock(metrics, key, "M1", 60).ProbeLossRate.mean
             = <<[num |-> 1, den |-> 3]>>
        /\ windowed_aggregate_with_clock(metrics, key, "M1", 400).ProbeLossRate.mean = <<>>

\* The t_total values of the in-window Ok samples under `key`, in store order.
RECURSIVE OkTotalsFrom(_, _, _, _)
OkTotalsFrom(key, window, now, i) ==
    IF i > Len(queue_of(metrics, key)) THEN <<>>
    ELSE (IF i \in OkIdx(key, window, now)
          THEN <<queue_of(metrics, key)[i].t_total>> ELSE <<>>)
         \o OkTotalsFrom(key, window, now, i + 1)

\* C16: with k >= 2 in-window Ok samples the Jitter series has exactly k - 1
\* values, the i-th being the absolute difference of the t_total of the i-th
\* and the (i+1)-th in-window Ok sample in store order, Err samples between
\* them skipped; with k < 2 Jitter has n = 0.
C16_JitterSeries ==
    \A key \in AggregateKeys, window \in WindowSpec, now \in QueryNows :
        LET oks == OkTotalsFrom(key, window, now, 1)
            k == Cardinality(OkIdx(key, window, now))
            series == jitter_values(total_values(
                          in_window(queue_of(metrics, key), cutoff_of(now, window))))
            stats == windowed_aggregate_with_clock(metrics, key, window, now).Jitter
        IN /\ Len(oks) = k
           /\ stats.n = Len(series)
           /\ IF k >= 2
              THEN /\ Len(series) = k - 1
                   /\ \A i \in 1..(k - 1) :
                        /\ series[i] >= 0
                        /\ series[i] \in {oks[i + 1] - oks[i], oks[i] - oks[i + 1]}
                   /\ stats.last = series[k - 1]
              ELSE /\ series = <<>>
                   /\ stats.n = 0

\* C16 witness: Ok(10), Err, Ok(30) under one key give the single jitter value
\* 20 in the window ending at 60 s; the window ending at 90 s holds one Ok
\* sample only and has no jitter value.
C16_Witness ==
    \E key \in AggregateKeys :
        /\ IsOkTimeoutOk(key)
        /\ windowed_aggregate_with_clock(metrics, key, "M1", 60).Jitter
             = [n |-> 1, last |-> 20, min |-> 20, max |-> 20]
        /\ windowed_aggregate_with_clock(metrics, key, "M1", 90).Jitter.n = 0

\* The in-window samples of the target's profiles, as (key, position) pairs.
TargetInWindow(target, window, now) ==
    UNION {{<<key, i>> : i \in InWindowIdx(key, window, now)} :
             key \in {WorkerKey(target, target.profiles[j]) : j \in DOMAIN target.profiles}}

ResultAt(at) == queue_of(metrics, at[1])[at[2]].result

\* C24: target_summary(target) has requests = the sum over the target's
\* profiles of Total.n (the in-window Ok samples), samples = the sum of
\* ProbeLossRate.n (all in-window samples), errors = the per-kind sum of the
\* error breakdowns, timeouts = the errors of a timeout kind, and successes =
\* requests minus all errors, saturating at 0.
C24_TargetSummary ==
    \A target \in AggregateTargets, window \in WindowSpec, now \in QueryNows :
        LET summary == target_summary(metrics, target, window, now)
            all == TargetInWindow(target, window, now)
            ok == {at \in all : ResultAt(at).tag = "Ok"}
            err == all \ ok
            kinds == {ResultAt(at).kind : at \in err}
            timeouts == {at \in err : ResultAt(at).kind \in
                            {"DnsTimeout", "ConnectTimeout", "HttpTimeout", "ReadTimeout"}}
        IN /\ summary.requests = Cardinality(ok)
           /\ summary.samples = Cardinality(all)
           /\ DOMAIN summary.errors = kinds
           /\ \A kind \in kinds :
                summary.errors[kind] = Cardinality({at \in err : ResultAt(at).kind = kind})
           /\ summary.timeouts = Cardinality(timeouts)
           /\ summary.successes =
                IF Cardinality(ok) >= Cardinality(err)
                THEN Cardinality(ok) - Cardinality(err) ELSE 0

\* C24 witness: the two profiles of target 1 hold an Ok sample, a timeout and
\* an HTTP status error between them: 1 request, 3 samples, 1 timeout and,
\* errors outnumbering requests, 0 successes.
C24_Witness ==
    \E target \in AggregateTargets :
        /\ Len(target.profiles) = 2
        /\ \A j \in 1..2 : queue_of(metrics, WorkerKey(target, target.profiles[j])) # <<>>
        /\ target_summary(metrics, target, "M5", 60)
             = [samples |-> 3, requests |-> 1, successes |-> 0, timeouts |-> 1,
                errors |-> [kind \in {"HttpTimeout", "HttpStatusError"} |-> 1]]

\* The in-window positions of `key` holding an Err of a timeout kind.
TimeoutIdx(key, window, now) ==
    {i \in ErrIdx(key, window, now) :
        queue_of(metrics, key)[i].result.kind
            \in {"DnsTimeout", "ConnectTimeout", "HttpTimeout", "ReadTimeout"}}

\* The system clock at the time of a query: not before any stored sample.
ClockNotBefore(key, now) ==
    \A i \in 1..Len(queue_of(metrics, key)) : queue_of(metrics, key)[i].ts <= now

\* C25: timeout_events(key, window) returns, in store order, exactly one
\* x-offset for each in-window sample of the key whose result is Err with a
\* timeout kind, and nothing for Ok samples and Err samples of another kind;
\* one HttpTimeout plus one HttpStatusError gives exactly 1 point. The clock
\* read by the query is the one that stamped the samples and has not run
\* backwards.
C25_TimeoutEvents ==
    \A key \in AggregateKeys, window \in WindowSpec, now \in QueryNows :
        ClockNotBefore(key, now) =>
            LET events_ == timeout_events_with_clock(metrics, key, window, now)
                idx == TimeoutIdx(key, window, now)
            IN /\ Len(events_) = Cardinality(idx)
               /\ \A i \in idx :
                    LET x == events_[Cardinality({m \in idx : m <= i})]
                    IN /\ x = duration(window) - (now - queue_of(metrics, key)[i].ts)
                       /\ 0 <= x /\ x <= duration(window)

\* C25 witness: a key holds one HttpTimeout and one HttpStatusError sample and
\* its timeout events in the one-minute window ending at 60 s are one point.
C25_Witness ==
    \E key \in AggregateKeys :
        /\ Len(queue_of(metrics, key)) = 2
        /\ {queue_of(metrics, key)[i].result.tag : i \in 1..2} = {"Err"}
        /\ {queue_of(metrics, key)[i].result.kind : i \in 1..2}
             = {"HttpTimeout", "HttpStatusError"}
        /\ Len(timeout_events_with_clock(metrics, key, "M1", 60)) = 1

Words(message) == {message[i] : i \in DOMAIN message}

\* The TLS-version pattern on a lower-cased message.
TlsVersionPattern(lower) ==
    \/ "ssl_min_max_version" \in Words(lower)
    \/ \E i \in 1..(Len(lower) - 1) : lower[i] = "unsupported" /\ lower[i + 1] = "protocol"
    \/ "tls" \in Words(lower) /\ Words(lower) \cap {"version", "unsupported"} # {}

\* The classifier's rules in priority order.
ClassifierRules(err) ==
    LET pattern == TlsVersionPattern(to_ascii_lowercase(err.message))
        tls == err.code \in {"SSL_CONNECT_ERROR", "SSL_CACERT", "SSL_CERTPROBLEM", "SSL_CIPHER"}
    IN << [applies |-> err.code \in {"COULDNT_RESOLVE_HOST", "COULDNT_RESOLVE_PROXY"},
           kind |-> "DnsOther"],
          [applies |-> err.code = "OPERATION_TIMEDOUT", kind |-> "HttpTimeout"],
          [applies |-> err.code = "COULDNT_CONNECT", kind |-> "ConnectOther"],
          [applies |-> tls /\ pattern, kind |-> "TlsVersionMismatch"],
          [applies |-> tls, kind |-> "TlsHandshakeFailed"],
          [applies |-> err.code = "HTTP_RETURNED_ERROR", kind |-> "HttpStatusError"],
          [applies |-> err.code = "READ_ERROR", kind |-> "ReadTimeout"],
          [applies |-> pattern, kind |-> "TlsVersionMismatch"],
          [applies |-> TRUE, kind |-> "IoError"] >>

FirstMatch(rules) ==
    rules[CHOOSE i \in DOMAIN rules :
            rules[i].applies /\ \A j \in 1..(i - 1) : ~rules[j].applies].kind

\* C17: map_curl_error gives every transport error the kind of the first rule
\* that applies, in the order unresolved host, timed out, could not connect,
\* TLS error (TlsVersionMismatch on the TLS-version pattern, TlsHandshakeFailed
\* otherwise), HTTP-returned error, read error, TLS-version pattern, IoError;
\* the pattern is tested on the lower-cased message.
C17_FirstMatchPriority ==
    \A i \in DOMAIN probeCall :
        /\ probeCall[i].out.tag = "Err"
        /\ probeCall[i].out.kind = FirstMatch(ClassifierRules(probeCall[i].err))
        /\ is_tls_version_error(to_ascii_lowercase(probeCall[i].err.message))
             = TlsVersionPattern(to_ascii_lowercase(probeCall[i].err.message))

\* C17 witness: an error of a code no rule names, whose message matches the
\* pattern only after lower-casing, was classified TlsVersionMismatch.
C17_Witness ==
    /\ probeCall # <<>>
    /\ probeCall[1].err = [code |-> "RECV_ERROR", message |-> <<"Unsupported", "protocol">>]
    /\ probeCall[1].out.kind = "TlsVersionMismatch"

\* ------------------------------------- claims on SpecProbe: one transfer

\* The transfers of the call made, each with what the transport did on it.
Attempts ==
    IF probeCall = <<>> THEN {}
    ELSE {[tr |-> probeCall[1].script[i], r |-> probeCall[1].out.performed[i]] :
            i \in DOMAIN probeCall[1].out.performed}

\* C18: every sample of a probe attempt whose recorded http_status is N >= 400
\* has result Err(HttpStatusError, "HTTP status N"), also when the transfer
\* completed.
C18_StatusErrorResult ==
    \A a \in Attempts :
        a.r.sample.http_status >= 400 =>
            a.r.sample.result
                = ResultErr("HttpStatusError",
                            <<"HTTP", "status", ToString(a.r.sample.http_status)>>)

\* C20: a transfer ending with a write or aborted-by-callback error while the
\* collector's limit_reached is true is not a failure: the result is Ok, or
\* HttpStatusError when the status is >= 400, and no retry is asked for; a
\* transfer error with limit_reached false is a failure, classified by
\* map_curl_error.
C20_LimitAbortIsNotFailure ==
    \A a \in Attempts :
        /\ (/\ a.tr.perform.code \in {"WRITE_ERROR", "ABORTED_BY_CALLBACK"}
            /\ a.tr.limit_reached) =>
                /\ a.r.sample.result =
                      IF a.tr.status >= 400
                      THEN ResultErr("HttpStatusError",
                                     <<"HTTP", "status", ToString(a.tr.status)>>)
                      ELSE ResultOk
                /\ ~a.r.dns_timeout
                /\ a.r # probeCall[1].out.performed[1] \/ Len(probeCall[1].out.performed) = 1
        /\ (a.tr.perform.code # "OK" /\ ~a.tr.limit_reached) =>
                /\ a.r.sample.result.tag = "Err"
                /\ a.r.sample.result = map_curl_error(a.tr.perform)

\* C20 witness: a write error with limit_reached and status 200 gave an Ok
\* sample on a target that retries on DNS timeouts.
C20_Witness ==
    /\ probeCall # <<>>
    /\ probeCall[1].target.dns_enabled
    /\ probeCall[1].target.url.host = "Domain"
    /\ probeCall[1].script[1].perform.code = "WRITE_ERROR"
    /\ probeCall[1].script[1].limit_reached
    /\ probeCall[1].script[1].status = 200
    /\ probeCall[1].out.sample.result = ResultOk

\* ------------------------------------------------ claims on SpecCollector

\* C19: after reset(L) with L > 0 and any writes and progress calls, bytes <= L,
\* every write reports all the data offered as consumed, limit_reached is true
\* once bytes has reached L or progress has seen dlnow >= L and stays true
\* until the next reset, and progress returns false exactly when limit_reached
\* is true on return. With L = 0 bytes counts every byte written,
\* limit_reached is never set and progress always returns true.
C19_BodyCollector ==
    /\ [](collector.last.op # "default" =>
            /\ collector.last.op = "write" => collector.last.consumed = collector.last.arg
            /\ IF collector.limit > 0
               THEN /\ collector.bytes <= collector.limit
                    /\ collector.bytes = Min(collector.offered, collector.limit)
                    /\ collector.bytes >= collector.limit => collector.limit_reached
                    /\ collector.last.op = "progress" =>
                          /\ collector.last.continue = ~collector.limit_reached
                          /\ collector.last.arg >= collector.limit => collector.limit_reached
               ELSE /\ collector.bytes = collector.offered
                    /\ ~collector.limit_reached
                    /\ collector.last.op = "progress" => collector.last.continue)
    /\ [][(collector.limit_reached /\ ~collector'.limit_reached) =>
            collector'.last.op = "reset"]_vars

\* C19 witness: after reset(3) a write of 2 bytes and a write of 3 bytes were
\* made and progress then returned false with bytes = 3 of 5 offered.
C19_Witness ==
    /\ collector.limit = 3
    /\ collector.offered = 5
    /\ collector.bytes = 3
    /\ collector.limit_reached
    /\ collector.last.op = "progress"
    /\ ~collector.last.continue

\* -------------------------------------------------- claims on SpecTimings

\* C21: for every combination of transport timestamps, missing and
\* non-monotonic ones included, t_connect, t_tls, t_ttfb and t_download are
\* >= 0 and t_dns (if present) + t_connect + t_tls + t_ttfb + t_download
\* <= t_total.
C21_PhasesWithinTotal ==
    \A i \in DOMAIN probeCall :
        LET d == probeCall[i].out
        IN /\ d.t_connect >= 0 /\ d.t_tls >= 0 /\ d.t_ttfb >= 0 /\ d.t_download >= 0
           /\ unwrap_or(d.t_dns, 0) + d.t_connect + d.t_tls + d.t_ttfb + d.t_download
                <= d.t_total

\* ------------------------------------------- claims on Spec: sample order

\* The samples of `key` still in the channel, oldest first.
RECURSIVE InFlight(_, _)
InFlight(chan, key) ==
    IF chan = <<>> THEN <<>>
    ELSE (IF ProfileKey(Head(chan).target_id, Head(chan).profile_id) = key
          THEN <<Head(chan)>> ELSE <<>>) \o InFlight(Tail(chan), key)

\* C22: under every interleaving of workers, control messages and draining,
\* the samples stored under a key are in the order their worker produced them
\* and their timestamps do not decrease from front to back. A worker stamps
\* each sample later than its previous one, so the order of production of the
\* stored and the still undelivered samples of a key is their order by ts.
C22_StoredInProductionOrder ==
    \A key \in DOMAIN workers :
        LET produced == queue_of(metrics, key) \o InFlight(sample_chan, key)
        IN /\ \A i \in 1..(Len(produced) - 1) : produced[i].ts < produced[i + 1].ts
           /\ \A i \in 1..(Len(queue_of(metrics, key)) - 1) :
                queue_of(metrics, key)[i].ts <= queue_of(metrics, key)[i + 1].ts
           /\ Len(produced) <= workers[key].sent

\* C22 witness: two workers have samples in the store, one of them two
\* samples taken at different times, the later one behind the earlier one.
C22_Witness ==
    \E key \in DOMAIN metrics, other \in DOMAIN metrics :
        /\ key # other
        /\ Len(metrics[key]) = 2
        /\ metrics[key][1].ts < metrics[key][2].ts
        /\ Len(metrics[other]) >= 1

\* C23: after remove_target(i) has returned, the MetricsStore holds no sample
\* under any key of the removed target.
C23_RemovedTargetHasNoSamples ==
    \A key \in DOMAIN metrics :
        key[1] \in removed => metrics[key] = <<>>

\* ------------------------------------------- SecretString (config.rs)

MaxSecretLen == 2

\* Text is a sequence of characters.  The characters a secret is drawn from:
\* two that occur in the sentinel and one that does not.
SecretChars == {"R", "E", "x"}

RECURSIVE TextsUpTo(_)
TextsUpTo(n) ==
    IF n = 0 THEN {<<>>}
    ELSE LET shorter == TextsUpTo(n - 1)
         IN  shorter \cup {Append(t, c) : t \in shorter, c \in SecretChars}

SecretValues == TextsUpTo(MaxSecretLen)

\* SecretString::new wraps the value unchanged.
SecretString_new(value) == [inner |-> value]

\* SecretString::expose
expose(secret) == secret.inner

\* What #[derive(Debug)] on the tuple struct would print instead.
fmt_Debug_derived(secret) ==
    <<"S", "e", "c", "r", "e", "t", "S", "t", "r", "i", "n", "g", "(">>
    \o secret.inner \o <<")">>

\* impl fmt::Display for SecretString
fmt_Display(secret) == <<"[", "R", "E", "D", "A", "C", "T", "E", "D", "]">>

\* impl fmt::Debug for SecretString
fmt_Debug(secret) ==
    <<"S", "e", "c", "r", "e", "t", "S", "t", "r", "i", "n", "g", "(",
      "[", "R", "E", "D", "A", "C", "T", "E", "D", "]", ")">>

\* Two secrets are built and each is formatted and exposed.
FormatSecrets(a, b) ==
    /\ probeCall' =
           <<[a |-> a, b |-> b,
              display_a |-> fmt_Display(SecretString_new(a)),
              display_b |-> fmt_Display(SecretString_new(b)),
              debug_a |-> fmt_Debug(SecretString_new(a)),
              debug_b |-> fmt_Debug(SecretString_new(b)),
              expose_a |-> expose(SecretString_new(a)),
              expose_b |-> expose(SecretString_new(b))]>>
    /\ UNCHANGED <<storeVars, collector, global, tls13, sysVars>>

NextSecret ==
    /\ probeCall = <<>>
    /\ \E a \in SecretValues, b \in SecretValues : FormatSecrets(a, b)

SpecSecret == Init /\ [][NextSecret]_vars

\* ------------------------------------------------- claims on SpecSecret

Sentinel == <<"[", "R", "E", "D", "A", "C", "T", "E", "D", "]">>

\* A value with a character that the formatted text does not have.
HasForeignChar(value, text) ==
    \E i \in DOMAIN value : \A j \in DOMAIN text : text[j] # value[i]

MaxHz == 2

\* The process before main has run.
InitMain ==
    /\ metrics = <<>>
    /\ pushLog = <<>>
    /\ probeCall = <<>>
    /\ collector = BodyCollector_default
    /\ global = GlobalConfig_default
    /\ tls13 = Tls13_new
    /\ targets = <<>>
    /\ selected_target = 0
    /\ sample_chan = <<>>
    /\ workers = <<>>
    /\ mainpc = [op |-> "main"]
    /\ next_id = 0
    /\ events = 0
    /\ removed = {}
    /\ rejected = {}

\* main: the arguments are parsed and copied into the GlobalConfig; the
\* value of --refresh-hz is not examined (settings::from_args is not called).
MainArgs(refresh_hz) ==
    /\ mainpc.op = "main"
    /\ global' = [global EXCEPT !.ui_refresh_hz = refresh_hz]
    /\ mainpc' = [op |-> "main_targets"]
    /\ UNCHANGED <<storeVars, probeCall, collector, tls13, targets, selected_target,
                   sample_chan, workers, next_id, events, removed, rejected>>

\* main: add_target for one of the command line's targets.
MainAddTarget(n) ==
    /\ mainpc.op = "main_targets"
    /\ add_target(n)
    /\ UNCHANGED <<sample_chan, mainpc, events, removed, rejected, metrics, pushLog,
                   probeCall, collector, global, tls13>>

\* main calls run_ui.
RunUi ==
    /\ mainpc.op = "main_targets"
    /\ mainpc' = [op |-> "idle"]
    /\ UNCHANGED <<storeVars, probeCall, collector, global, tls13, targets, selected_target,
                   sample_chan, workers, next_id, events, removed, rejected>>

\* One turn of the run_ui loop: the frame is drawn and the tick is computed
\* as Duration::from_secs_f64(1.0 / ui_refresh_hz), which panics for 0.
UiTick ==
    /\ Idle
    /\ mainpc' = IF global.ui_refresh_hz = 0 THEN [op |-> "panicked"] ELSE mainpc
    /\ UNCHANGED <<storeVars, probeCall, collector, global, tls13, targets, selected_target,
                   sample_chan, workers, next_id, events, removed, rejected>>

\* handle_settings_edit_key, Enter on the refresh field with a parsed value
\* (for 0 only the editor's notice changes).
SettingsEdit(value) ==
    /\ Idle
    /\ global' = IF value > 0 THEN [global EXCEPT !.ui_refresh_hz = value] ELSE global
    /\ UNCHANGED <<storeVars, probeCall, collector, tls13, targets, selected_target,
                   sample_chan, workers, mainpc, next_id, events, removed, rejected>>

NextStartup ==
    \/ \E refresh_hz \in 0..MaxHz : MainArgs(refresh_hz)
    \/ \E n \in 1..MaxProfiles : MainAddTarget(n)
    \/ RunUi
    \/ UiTick
    \/ \E value \in 0..MaxHz : SettingsEdit(value)
    \/ \E w \in DOMAIN workers : WorkerStep(w)

SpecStartup == InitMain /\ [][NextStartup]_vars

\* ------------------------------------------------ claims on SpecStartup

\* C28: A refresh rate of 0 is never in effect: once main has read the
\* arguments, a rate of 0 means that no target was added and no worker
\* spawned, and while the UI runs global.ui_refresh_hz > 0.
C28_RefreshRateNeverZero ==
    /\ (mainpc.op # "main" /\ global.ui_refresh_hz = 0) =>
           (targets = <<>> /\ DOMAIN workers = {})
    /\ mainpc.op = "idle" => global.ui_refresh_hz > 0

\* ------------------------------------------------- claims on Spec: exit

\* C29: When the application has exited, every worker's control sender has
\* been dropped and every worker thread has been joined: no worker is still
\* running.
C29_WorkersJoinedAtExit ==
    mainpc.op = "exited" =>
        \A w \in DOMAIN workers : ~workers[w].connected /\ workers[w].pc = "done"

\* ------------------------------------------------ claims on Spec: pause

\* Step of toggle_pause on the target at position i.
IsToggle(i) ==
    /\ Len(targets') = Len(targets)
    /\ i \in DOMAIN targets
    /\ targets'[i].paused # targets[i].paused

\* C30: toggle_pause(index) flips the target's paused flag and appends
\* Pause(new flag) to the control queue of every live worker of that target
\* and changes no worker of another target; and whenever a live worker has
\* processed every control message sent to it, its paused state is the
\* paused flag of its target.
C30_PauseAgreement ==
    /\ [](\A i \in DOMAIN targets : \A j \in DOMAIN targets[i].profiles :
            LET w == WorkerKey(targets[i], targets[i].profiles[j])
            IN (workers[w].pc # "done" /\ workers[w].ctrl = <<>>) =>
                   workers[w].paused = targets[i].paused)
    /\ [][\A i \in 1..MaxTargets : IsToggle(i) =>
            /\ targets'[i].paused = ~targets[i].paused
            /\ \A w \in DOMAIN workers :
                  IF w[1] = targets[i].config.id /\ workers[w].pc # "done"
                  THEN workers'[w] =
                           [workers[w] EXCEPT
                               !.ctrl = Append(@, Pause(targets'[i].paused)),
                               !.enq = @ + 1]
                  ELSE workers'[w] = workers[w]]_vars

\* Two targets; the first was toggled twice and its worker has processed both
\* messages, the second target's worker was sent nothing.
C30_Witness ==
    /\ Len(targets) = 2
    /\ ~targets[1].paused
    /\ LET w1 == WorkerKey(targets[1], targets[1].profiles[1])
           w2 == WorkerKey(targets[2], targets[2].profiles[1])
       IN /\ workers[w1].pc = "loop" /\ workers[w1].enq = 2 /\ workers[w1].ctrl = <<>>
          /\ ~workers[w1].paused
          /\ workers[w2].pc = "loop" /\ workers[w2].enq = 0

\* ------------------------------- SpecTls: detect_tls13_support (engine/mod.rs)

\* str::contains on one word of a message: the needle is the word or a part
\* of it.
word_contains(word, needle) ==
    \/ word = needle
    \/ word = "gnutls_handshake" /\ needle \in {"tls", "handshake"}

mentions(message, needle) == \E i \in DOMAIN message : word_contains(message[i], needle)

\* What the disposable handles meet: whether ssl_min_max_version(TLS 1.3,
\* TLS 1.3) is accepted, whether the other options of the test handle are,
\* and what perform() returns.
TlsTestErrors ==
    [code : {"SSL_CONNECT_ERROR", "SSL_CACERT", "SSL_CERTPROBLEM", "SSL_CIPHER",
             "OPERATION_TIMEDOUT", "COULDNT_CONNECT", "COULDNT_RESOLVE_HOST"},
     message : {<<"SSL", "connect", "error">>, MsgTimeout,
                <<"gnutls_handshake", "failed">>, <<"Unsupported", "protocol">>,
                <<"connection", "refused">>}]

TlsEnvironments ==
    [accepted : BOOLEAN, setup : BOOLEAN, perform : {PerformOk} \cup TlsTestErrors]

\* test_tls13_connection: <<b>> for Ok(b), <<>> for Err(err).
test_tls13_connection(env) ==
    IF ~env.accepted \/ ~env.setup THEN <<>>
    ELSE IF ~is_err(env.perform) THEN <<TRUE>>
    ELSE LET err == env.perform
             msg == to_ascii_lowercase(err.message)
         IN IF \/ err.code \in {"SSL_CONNECT_ERROR", "SSL_CACERT", "SSL_CERTPROBLEM",
                                "SSL_CIPHER"}
               \/ mentions(msg, "ssl")
               \/ mentions(msg, "tls")
               \/ mentions(msg, "handshake")
               \/ mentions(msg, "protocol")
            THEN <<FALSE>>
            ELSE <<>>

\* The closure given to get_or_init.
detection(env) ==
    IF ~env.accepted THEN FALSE
    ELSE LET tested == test_tls13_connection(env)
         IN IF tested # <<>> THEN tested[1] ELSE FALSE

\* An entry that starts the closure whenever the cell is empty.
enter_unsynchronized(cell, running) == IF cell # <<>> THEN "ready" ELSE "init"

\* OnceLock::get_or_init on entry: the value is there, or this thread runs
\* the closure, or it blocks while another thread runs it.
get_or_init_enter(cell, running) ==
    IF cell # <<>> THEN "ready"
    ELSE IF running = {} THEN "init"
    ELSE "wait"

\* Thread t calls detect_tls13_support.
TlsCall(t) ==
    /\ tls13.pc[t] = "idle"
    /\ Len(tls13.ret[t]) < MaxCalls
    /\ LET enter == get_or_init_enter(tls13.cell, tls13.running)
       IN tls13' =
            CASE enter = "ready" -> [tls13 EXCEPT !.ret[t] = Append(@, tls13.cell[1])]
              [] enter = "init" -> [tls13 EXCEPT !.pc[t] = "init", !.running = @ \cup {t}]
              [] enter = "wait" -> [tls13 EXCEPT !.pc[t] = "wait"]
    /\ UNCHANGED <<storeVars, probeCall, collector, global, sysVars>>

\* The closure runs in thread t and its value is stored and returned.
TlsDetect(t, env) ==
    /\ tls13.pc[t] = "init"
    /\ LET value == detection(env)
       IN tls13' = [tls13 EXCEPT !.cell = <<value>>, !.running = @ \ {t},
                                 !.runs = Append(@, env), !.pc[t] = "idle",
                                 !.ret[t] = Append(@, value)]
    /\ UNCHANGED <<storeVars, probeCall, collector, global, sysVars>>

\* A blocked thread is released once the value is there.
TlsRelease(t) ==
    /\ tls13.pc[t] = "wait"
    /\ tls13.cell # <<>>
    /\ tls13' = [tls13 EXCEPT !.pc[t] = "idle", !.ret[t] = Append(@, tls13.cell[1])]
    /\ UNCHANGED <<storeVars, probeCall, collector, global, sysVars>>

NextTls ==
    \E t \in 1..MaxCallers :
        \/ TlsCall(t)
        \/ /\ tls13.pc[t] = "init"
           /\ \E env \in TlsEnvironments : TlsDetect(t, env)
        \/ TlsRelease(t)

SpecTls == Init /\ [][NextTls]_vars

\* ---------------------------------------------------- claims on SpecTls

\* C31: The detection runs at most once; every call of every thread,
\* concurrent first calls included, returns the one stored boolean; and that
\* boolean is true exactly when min = max = TLS 1.3 was accepted and the test
\* request succeeded, false in every other case.
C31_DetectOnce ==
    /\ Len(tls13.runs) <= 1
    /\ \A t \in 1..MaxCallers : \A i \in DOMAIN tls13.ret[t] :
           tls13.cell # <<>> /\ tls13.ret[t][i] = tls13.cell[1]
    /\ tls13.cell # <<>> =>
           /\ Len(tls13.runs) = 1
           /\ tls13.cell[1] <=>
                  /\ tls13.runs[1].accepted
                  /\ tls13.runs[1].setup
                  /\ tls13.runs[1].perform = PerformOk

\* Thread 2 called while thread 1 was detecting; the test request timed out
\* and both were told false.
C31_Witness ==
    /\ Len(tls13.runs) = 1
    /\ tls13.runs[1].accepted /\ tls13.runs[1].setup
    /\ tls13.runs[1].perform.code = "OPERATION_TIMEDOUT"
    /\ tls13.ret[1] = <<FALSE>>
    /\ tls13.ret[2] = <<FALSE, FALSE>>

\* --------------------------- SpecTick: one worker, its channel and the time

\* The messages update_target_config, update_profile_config and toggle_pause
\* send; the edited target config has another interval.
TickMessages(wk) ==
    {Pause(TRUE), Pause(FALSE),
     UpdateTarget([wk.target EXCEPT !.interval = IF @ = 1 THEN MaxInterval ELSE 1]),
     UpdateProfile([wk.profile EXCEPT !.http = "H1"])}

\* One unit of time passes while the thread waits in recv_timeout.
TimePasses(w) ==
    /\ workers[w].pc = "loop" /\ ~workers[w].paused
    /\ workers[w].waited < workers[w].target.interval
    /\ workers' = [workers EXCEPT ![w].waited = @ + 1]
    /\ UNCHANGED <<mainVars, sample_chan, pushLog, probeCall, collector, global, tls13>>

\* recv_timeout(target.interval) gives Err(Timeout) once the interval is over.
TickTimeout(w) ==
    /\ workers[w].waited >= workers[w].target.interval
    /\ WorkerRecvTimeout(w)

NextTick ==
    \/ SpawnWorker
    \/ \E w \in DOMAIN workers :
        \/ WorkerStart(w)
        \/ WorkerStartErr(w)
        \/ WorkerPausedRecv(w)
        \/ WorkerRecvMessage(w)
        \/ WorkerRecvDisconnected(w)
        \/ TickTimeout(w)
        \/ TimePasses(w)
        \/ \E msg \in TickMessages(workers[w]) : ControlSend(w, msg)
        \/ ControlDrop(w)

SpecTick == Init /\ [][NextTick]_vars

\* --------------------------------------------------- claims on SpecTick

IsUpdate(msg) == msg.type \in {"UpdateTarget", "UpdateProfile"}

\* The step in which worker w takes a message off its channel.
TakesMessage(w) ==
    /\ workers[w].ctrl # <<>>
    /\ workers'[w].reads > workers[w].reads

\* C32: Processing UpdateTarget or UpdateProfile sends no sample, makes no
\* probe and leaves Running/Paused as it was; the worker's configs change only
\* by processing these messages, head of the queue first, and a probe is made
\* with the configs of that moment; a tick happens only when a full interval
\* of the current config has passed in one wait with no message, and every
\* return of a receive starts the wait again.
C32_UpdatesAndTicks ==
    [][\A w \in DOMAIN workers :
          LET a == workers[w]
              b == workers'[w]
          IN /\ (TakesMessage(w) /\ IsUpdate(Head(a.ctrl))) =>
                    /\ b.sent = a.sent /\ b.probes = a.probes
                    /\ sample_chan' = sample_chan
                    /\ b.paused = a.paused /\ b.pc = a.pc
                    /\ b.ctrl = Tail(a.ctrl)
                    /\ b.target = IF Head(a.ctrl).type = "UpdateTarget"
                                  THEN Head(a.ctrl).cfg ELSE a.target
                    /\ b.profile = IF Head(a.ctrl).type = "UpdateProfile"
                                   THEN Head(a.ctrl).cfg ELSE a.profile
             /\ (b.target # a.target \/ b.profile # a.profile) =>
                    (TakesMessage(w) /\ IsUpdate(Head(a.ctrl)))
             /\ b.probes > a.probes =>
                    /\ b.probes = a.probes + 1
                    /\ b.used = <<[target |-> a.target, profile |-> a.profile]>>
             /\ b.ticks > a.ticks =>
                    /\ a.ctrl = <<>>
                    /\ a.waited >= a.target.interval
             /\ b.reads > a.reads => b.waited = 0]_vars

\* The worker processed an UpdateTarget with the longer interval and an
\* UpdateProfile, and ticked after that: the probe had both new configs.
C32_Witness ==
    \E w \in DOMAIN workers :
        /\ workers[w].ticks = 1 /\ workers[w].probes = 2
        /\ workers[w].used # <<>>
        /\ workers[w].used[1].target.interval = MaxInterval
        /\ workers[w].used[1].profile.http = "H1"
        /\ workers[w].waited = 0

\* ---------------- SpecPoints: update_target_config with another max_points

\* update_target_config(index, updated) where updated is the stored config
\* with sampling.max_points_per_window = max_points: the config is replaced
\* and UpdateTarget is sent to the target's workers; the store is not touched.
UpdateMaxPoints(index, max_points) ==
    /\ Idle
    /\ index < Len(targets)
    /\ events < MaxEvents
    /\ events' = events + 1
    /\ LET updated == [targets[index + 1].config EXCEPT !.max_points = max_points]
       IN /\ targets' = [targets EXCEPT ![index + 1].config = updated]
          /\ workers' = broadcast(workers, targets[index + 1], UpdateTarget(updated))
    /\ UNCHANGED <<selected_target, sample_chan, mainpc, next_id, removed, rejected,
                   metrics, pushLog, probeCall, collector, global, tls13>>

\* Targets are added, their workers probe at start and at each tick, run_ui
\* applies the samples, and the target configs are updated.
NextPoints ==
    \/ \E n \in 1..MaxProfiles : AddTarget(n)
    \/ \E w \in DOMAIN workers :
        \/ WorkerStart(w)
        \/ WorkerRecvMessage(w)
        \/ WorkerRecvTimeout(w)
    \/ DrainSample
    \/ \E index \in 0..(MaxTargets - 1), max_points \in 1..MaxPoints :
           UpdateMaxPoints(index, max_points)

SpecPoints == Init /\ [][NextPoints]_vars

\* --------------------------------------------------- claims on SpecPoints

\* C33: For every current target and each of its profiles, the number of
\* samples stored under (target id, profile id) is at most the target's
\* max_points_per_window.
C33_StoredWithinMaxPoints ==
    \A i \in DOMAIN targets : \A j \in DOMAIN targets[i].profiles :
        Len(queue_of(metrics, WorkerKey(targets[i], targets[i].profiles[j])))
            <= targets[i].config.max_points

\* ------------------------- SpecCache: the worker's resolved_ip and its probes

\* What the transport does during a probe: as in the system model, or a 404
\* answered by another peer.
CacheTransport(start_ts) ==
    SysTransport(start_ts) \cup
    {[perform |-> PerformOk, status |-> 404, limit_reached |-> FALSE,
      remote |-> "203.0.113.9", start_ts |-> start_ts, t_total |-> 10]}

\* run_worker's initial probe.
CacheStart(w) ==
    /\ workers[w].pc = "start"
    /\ \E tr \in CacheTransport(SystemTime_now) :
        LET r == initial_probe(workers[w], tr)
        IN /\ workers' = [workers EXCEPT ![w] = after_send(r.wk, r.out)]
           /\ sample_chan' = send_samples(sample_chan, r.out)
    /\ UNCHANGED <<mainVars, pushLog, probeCall, collector, global, tls13>>

\* run_worker's Timeout arm.
CacheTimeout(w) ==
    /\ workers[w].pc = "loop" /\ ~workers[w].paused
    /\ timed_out(workers[w])
    /\ events < MaxEvents
    /\ events' = events + 1
    /\ \E tr \in CacheTransport(SystemTime_now + 1) :
        LET r == probe_and_send([received(workers[w]) EXCEPT !.ticks = @ + 1], tr)
        IN /\ workers' = [workers EXCEPT ![w] = after_send(r.wk, r.out)]
           /\ sample_chan' = send_samples(sample_chan, r.out)
    /\ UNCHANGED <<targets, selected_target, mainpc, next_id, removed, rejected, metrics,
                   pushLog, probeCall, collector, global, tls13>>

NextCache ==
    \/ SpawnWorker
    \/ \E w \in DOMAIN workers :
        \/ CacheStart(w)
        \/ WorkerPausedRecv(w)
        \/ WorkerRecvMessage(w)
        \/ CacheTimeout(w)
        \/ \E msg \in ControlMessages(workers[w]) : ControlSend(w, msg)

SpecCache == Init /\ [][NextCache]_vars

\* --------------------------------------------------- claims on SpecCache

\* C34: The worker's resolved_ip is empty at start and changes only in a step
\* that sends a sample with result Ok and a populated remote address, to that
\* address.
C34_CacheOnlyAfterOk ==
    /\ [](\A w \in DOMAIN workers : workers[w].pc = "start" => workers[w].resolved_ip = None)
    /\ [][\A w \in DOMAIN workers :
            workers'[w].resolved_ip # workers[w].resolved_ip =>
                /\ Len(sample_chan') = Len(sample_chan) + 1
                /\ sample_chan'[Len(sample_chan')].result = ResultOk
                /\ sample_chan'[Len(sample_chan')].remote = workers'[w].resolved_ip]_vars

\* ------------------------------------- claims on SpecWorker: queued stop

\* Pause(true) or Stop is in the worker's queue, not yet taken.
StopOrPauseQueued(wk) ==
    \E i \in DOMAIN wk.ctrl : wk.ctrl[i] \in {Pause(TRUE), Stop}

\* C35: A tick starts only with an empty control queue; while Pause(true) or
\* Stop is queued for a worker, whatever is queued ahead of it, the worker
\* sends a sample only in its startup step, hence at most one; and taking
\* Pause(true) off the queue leaves the worker Paused, taking Stop leaves it
\* terminated.
C35_NoTickWhileQueued ==
    [][\A w \in DOMAIN workers :
          LET a == workers[w]
              b == workers'[w]
          IN /\ b.ticks > a.ticks => a.ctrl = <<>>
             /\ (StopOrPauseQueued(a) /\ b.sent > a.sent) =>
                    /\ a.pc = "start" /\ b.pc # "start"
                    /\ b.sent = a.sent + 1
                    /\ b.ticks = a.ticks
             /\ (TakesMessage(w) /\ Head(a.ctrl) = Pause(TRUE)) =>
                    (b.paused /\ b.sent = a.sent)
             /\ (TakesMessage(w) /\ Head(a.ctrl) = Stop) =>
                    (b.pc = "done" /\ b.sent = a.sent)]_vars

\* Stop was queued behind two other messages before the worker had started:
\* the worker made its startup probe, took the three messages and returned
\* without a tick.
C35_Witness ==
    \E w \in DOMAIN workers :
        /\ workers[w].pc = "done" /\ ~workers[w].init_failed
        /\ workers[w].enq = 3 /\ workers[w].reads = 3 /\ workers[w].stops = 1
        /\ workers[w].sent = 1 /\ workers[w].ticks = 0

\* ------------------------- SpecRemove: remove_target and the worker threads

AllWorkerKeys == {ProfileKey(t, p) : t \in 1..MaxTargets, p \in 1..MaxProfiles}

\* The UI thread adds, pauses and removes targets and drains samples between
\* its commands; the workers run.
NextRemove ==
    \/ \E w \in DOMAIN workers : WorkerStep(w)
    \/ \E n \in 1..MaxProfiles : AddTarget(n)
    \/ \E index \in 0..Len(targets) : RemoveTarget(index)
    \/ RemoveJoin
    \/ \E index \in 0..Len(targets) : TogglePause(index)
    \/ DrainSample

\* Every worker thread is scheduled while it can run and every probe returns;
\* join() returns once the joined thread has.
SpecRemove ==
    /\ Init /\ [][NextRemove]_vars
    /\ \A w \in AllWorkerKeys : WF_vars(WorkerStep(w))
    /\ WF_vars(RemoveJoin)

\* --------------------------------------------------- claims on SpecRemove

\* C36: A remove_target that has begun returns; and while it waits, a worker
\* with Stop in its queue starts no tick and sends at most its startup sample.
C36_RemoveReturns ==
    /\ (mainpc.op = "remove") ~> (mainpc.op = "idle")
    /\ [][mainpc.op = "remove" =>
            \A w \in DOMAIN workers :
                (\E i \in DOMAIN workers[w].ctrl : workers[w].ctrl[i] = Stop) =>
                    /\ workers'[w].ticks = workers[w].ticks
                    /\ workers'[w].sent > workers[w].sent => workers[w].pc = "start"]_vars

\* A target with two profiles was removed while the samples of its workers
\* stayed in the channel.
C36_Witness ==
    /\ Idle
    /\ removed # {}
    /\ Len(sample_chan) >= 2
    /\ \E t \in removed :
          /\ ProfileKey(t, 2) \in DOMAIN workers
          /\ workers[ProfileKey(t, 1)].pc = "done" /\ workers[ProfileKey(t, 1)].stops = 1
          /\ workers[ProfileKey(t, 2)].pc = "done" /\ workers[ProfileKey(t, 2)].stops = 1

\* ------------------------------------ SpecSelect: the selected target

\* handle_normal_key, Down or 'j'.
SelectDown ==
    /\ Idle
    /\ selected_target' = IF selected_target + 1 < Len(targets)
                          THEN selected_target + 1 ELSE selected_target
    /\ UNCHANGED <<targets, sample_chan, workers, mainpc, next_id, events, removed, rejected,
                   metrics, pushLog, probeCall, collector, global, tls13>>

\* handle_normal_key, Up or 'k'.
SelectUp ==
    /\ Idle
    /\ selected_target' = saturating_sub(selected_target, 1)
    /\ UNCHANGED <<targets, sample_chan, workers, mainpc, next_id, events, removed, rejected,
                   metrics, pushLog, probeCall, collector, global, tls13>>

NextSelect ==
    \/ \E n \in 1..MaxProfiles : AddTarget(n)
    \/ \E index \in 0..Len(targets) : RemoveTarget(index)
    \/ RemoveJoin
    \/ SelectDown
    \/ SelectUp
    \/ \E w \in DOMAIN workers : WorkerStep(w)

SpecSelect == Init /\ [][NextSelect]_vars

\* --------------------------------------------------- claims on SpecSelect

\* C37: Between the UI thread's commands selected_target is an index of
\* targets when there are targets and 0 when there are none; and add_target
\* leaves it at the index of the target it added, the last one.
C37_SelectionValid ==
    /\ [](Idle => IF targets = <<>> THEN selected_target = 0
                  ELSE selected_target \in 0..(Len(targets) - 1))
    /\ [][Len(targets') > Len(targets) =>
            /\ selected_target' = Len(targets') - 1
            /\ targets'[selected_target' + 1].config.id = next_id']_vars

\* Two targets were added, the first selected with Up and then removed: the
\* selection is the one target left.
C37_Witness ==
    /\ Idle
    /\ Len(targets) = 1 /\ targets[1].config.id = 2
    /\ removed = {1}
    /\ selected_target = 0

\* ------------------------------------- claims on SpecProbe: error kinds

\* The kinds the claim lists as the only ones produced.
ProducedKinds ==
    {"DnsOther", "HttpTimeout", "ConnectOther", "TlsHandshakeFailed", "TlsVersionMismatch",
     "HttpStatusError", "ReadTimeout", "IoError"}

\* The samples of a call of probe: those of its transfers and the one returned.
CallSamples(call) ==
    {call.out.sample} \cup {call.out.performed[i].sample : i \in DOMAIN call.out.performed}

\* C38: Every Err sample of the probe client has one of the kinds DnsOther,
\* HttpTimeout, ConnectOther, TlsHandshakeFailed, TlsVersionMismatch,
\* HttpStatusError, ReadTimeout, IoError; a sample of a timeout kind is
\* HttpTimeout or ReadTimeout; and when the resolution times out on the first
\* transfer and again on the IPv4 retry the sample returned is HttpTimeout.
C38_ProducedKinds ==
    \A c \in DOMAIN probeCall :
        LET call == probeCall[c] IN
        /\ \A s \in CallSamples(call) :
              s.result # ResultOk =>
                  /\ s.result.kind \in ProducedKinds
                  /\ is_timeout(s.result.kind) => s.result.kind \in {"HttpTimeout", "ReadTimeout"}
        /\ (/\ Len(call.out.performed) = 2
            /\ call.out.performed[1].dns_timeout
            /\ call.out.performed[2].dns_timeout) =>
               /\ call.out.sample = call.out.performed[2].sample
               /\ call.out.sample.result # ResultOk
               /\ call.out.sample.result.kind = "HttpTimeout"

\* The resolution timed out on both transfers of a call.
C38_Witness ==
    /\ probeCall # <<>>
    /\ Len(probeCall[1].out.performed) = 2
    /\ probeCall[1].out.performed[1].dns_timeout
    /\ probeCall[1].out.performed[2].dns_timeout
    /\ probeCall[1].out.sample.result = ResultErr("HttpTimeout", MsgResolving)

\* ---------------------------------- claims on SpecAggregate: success rate

\* summary.rs draw_summary_pane: the rate shown, in tenths of a percent
\* ({success_rate:.1}%), 0 when there are no requests.
success_rate(summary) ==
    IF summary.requests = 0 THEN 0 ELSE (summary.successes * 1000) \div summary.requests

====
